---- MODULE Spec2Model ----
(***************************************************************************)
(* A model of anonify's scoring engine (src/src/anonify/analysis/          *)
(* scoring.py): the column type classifier, the metric library, the        *)
(* column scorer and the global aggregator.                                *)
(*                                                                         *)
(* Numbers.  Python floats are modelled by exact rationals <<n, d>> in     *)
(* lowest terms with d > 0.  np.sqrt is the one operation that leaves the  *)
(* rationals; it is modelled by the square root rounded down to            *)
(* 1/SqrtScale (exact on perfect squares such as 0 and 1).  The sums of    *)
(* the statistics are taken over a common denominator, in integers.        *)
(*                                                                         *)
(* Values.  A cell of a column is a record [k, n, s]: k = "null" for a     *)
(* missing value (None / NaN), k = "num" for a number n, k = "str" for a   *)
(* string whose characters are the sequence s.                             *)
(***************************************************************************)
EXTENDS Integers, Sequences, FiniteSets, Bags, TLC

\* ------------------------------------------------------------------------
\* Rational arithmetic
\* ------------------------------------------------------------------------

Abs(i) == IF i < 0 THEN -i ELSE i
Min2(a, b) == IF a < b THEN a ELSE b
Max2(a, b) == IF a < b THEN b ELSE a

RECURSIVE GCD(_, _)
GCD(a, b) == IF b = 0 THEN a ELSE GCD(b, a % b)

\* The rational n/d (d # 0) in lowest terms with a positive denominator.
Rat(n, d) ==
    IF n = 0 THEN <<0, 1>>
    ELSE IF d < 0 THEN <<(-n) \div GCD(Abs(n), -d), (-d) \div GCD(Abs(n), -d)>>
    ELSE <<n \div GCD(Abs(n), d), d \div GCD(Abs(n), d)>>

Zero == <<0, 1>>
One == <<1, 1>>
Half == <<1, 2>>
RInt(i) == <<i, 1>>

RAdd(p, q) ==
    IF p[2] = q[2] THEN Rat(p[1] + q[1], p[2])
    ELSE Rat(p[1] * q[2] + q[1] * p[2], p[2] * q[2])

RSub(p, q) ==
    IF p[2] = q[2] THEN Rat(p[1] - q[1], p[2])
    ELSE Rat(p[1] * q[2] - q[1] * p[2], p[2] * q[2])

RMul(p, q) ==
    IF p[1] = 0 \/ q[1] = 0 THEN Zero
    ELSE Rat(p[1] * q[1], p[2] * q[2])

\* p / q for q # 0.
RDiv(p, q) ==
    IF p[1] = 0 \/ q[1] = 0 THEN Zero
    ELSE Rat(p[1] * q[2], p[2] * q[1])

RLt(p, q) == p[1] * q[2] < q[1] * p[2]
RLe(p, q) == p[1] * q[2] <= q[1] * p[2]
RMin(p, q) == IF RLt(q, p) THEN q ELSE p
RMax(p, q) == IF RLt(p, q) THEN q ELSE p
InUnit(p) == RLe(Zero, p) /\ RLe(p, One)

\* Sum of the integers f[i], i in the finite domain of f.
ISumFn(f) ==
    BagCardinality([i \in {j \in DOMAIN f : f[j] > 0} |-> f[i]])
    - BagCardinality([i \in {j \in DOMAIN f : f[j] < 0} |-> -f[i]])

\* Least common multiple of a finite set of positive integers.
RECURSIVE LcmSet(_)
LcmSet(S) ==
    IF S = {} THEN 1
    ELSE LET e == CHOOSE e \in S : TRUE
             l == LcmSet(S \ {e})
         IN  (l \div GCD(l, e)) * e

\* Sum of the rationals f[i], i in the finite domain of f.
RSumFn(f) ==
    LET den == LcmSet({f[i][2] : i \in DOMAIN f})
    IN  Rat(ISumFn([i \in DOMAIN f |-> f[i][1] * (den \div f[i][2])]), den)

\* np.mean of a non-empty list.
Mean(s) == IF Len(s) = 0 THEN Zero ELSE RDiv(RSumFn(s), RInt(Len(s)))

\* Largest r in lo..hi with r * r <= n.
RECURSIVE ISqrtIn(_, _, _)
ISqrtIn(n, lo, hi) ==
    IF lo >= hi THEN lo
    ELSE IF ((lo + hi + 1) \div 2) * ((lo + hi + 1) \div 2) <= n
         THEN ISqrtIn(n, (lo + hi + 1) \div 2, hi)
         ELSE ISqrtIn(n, lo, ((lo + hi + 1) \div 2) - 1)

SqrtScale == 10 * 10 * 10

\* max(0.0, min(1.0, sqrt(q))) for q >= 0, the root rounded down to 1/SqrtScale.
ClampedSqrt(q) ==
    IF q[1] >= q[2] THEN One
    ELSE Rat(ISqrtIn((q[1] * SqrtScale * SqrtScale) \div q[2], 0, SqrtScale), SqrtScale)

\* Python's round(v, digits) for v >= 0 with scale = 10^digits: to the nearest
\* multiple of 1/scale, ties to the even one.
Round(v, scale) ==
    LET num == v[1] * scale
        fl == num \div v[2]
        rem2 == 2 * (num % v[2])
    IN  IF rem2 > v[2] \/ (rem2 = v[2] /\ fl % 2 = 1)
        THEN Rat(fl + 1, scale)
        ELSE Rat(fl, scale)

\* ------------------------------------------------------------------------
\* Values and columns (pandas Series with the default RangeIndex)
\* ------------------------------------------------------------------------

Null == [k |-> "null", n |-> 0, s |-> <<>>]
Num(i) == [k |-> "num", n |-> i, s |-> <<>>]
Str(chars) == [k |-> "str", n |-> 0, s |-> chars]

IsNull(v) == v.k = "null"
IsNum(v) == v.k = "num"

SeqToSet(s) == {s[i] : i \in 1..Len(s)}

\* Series.dropna(): the labels (positions) of the non-missing cells, in order.
NotNullIdx(col) == SelectSeq([i \in 1..Len(col) |-> i], LAMBDA i : ~IsNull(col[i]))
dropna(col) == SelectSeq(col, LAMBDA v : ~IsNull(v))

\* Series.unique() as a set.
unique(col) == SeqToSet(col)

\* pd.to_numeric / astype(float) succeeds on the column: every cell is a number.
\* (the strings of the model are never numerals.)
CoercesToNumber(col) == \A i \in 1..Len(col) : IsNum(col[i])

\* ------------------------------------------------------------------------
\* Column type classifier
\* ------------------------------------------------------------------------

\* Variant: a ratio of exactly 0.5 still counts as categorical.
detect_column_type_inclusive(series) ==
    LET series_clean == dropna(series)
    IN  IF Len(series_clean) = 0 THEN "categorical"
        ELSE IF CoercesToNumber(series_clean) THEN "numerical"
        ELSE IF RLe(Rat(Cardinality(unique(series_clean)), Len(series_clean)), Half)
             THEN "categorical"
             ELSE "text"

detect_column_type(series) ==
    LET series_clean == dropna(series)
    IN  IF Len(series_clean) = 0 THEN "categorical"
        ELSE IF CoercesToNumber(series_clean) THEN "numerical"
        ELSE IF RLt(Rat(Cardinality(unique(series_clean)), Len(series_clean)), Half)
             THEN "categorical"
             ELSE "text"

\* ------------------------------------------------------------------------
\* Metric library
\* ------------------------------------------------------------------------

\* ---- categorical metrics ----

\* scipy.stats.chi2_contingency(observed)[0] for the table pd.crosstab builds
\* from the cells at the labels in idx: Pearson's statistic, the sum over the
\* cells of (O - E)^2 / E with E = rowsum * colsum / n; 0 when there are no
\* degrees of freedom; with Yates' continuity correction (each |O - E| reduced
\* by min(0.5, |O - E|)) when there is exactly one.
\* With u = |n O - rowsum colsum| and w = 2u (w = max(0, 2u - n) under Yates),
\* a cell's term is w^2 / (4 n rowsum colsum).
chi2_contingency(x, y, idx) ==
    LET rows == {x[i] : i \in idx}
        cols == {y[i] : i \in idx}
        n == Cardinality(idx)
        dof == (Cardinality(rows) - 1) * (Cardinality(cols) - 1)
        obs(a, b) == Cardinality({i \in idx : x[i] = a /\ y[i] = b})
        rsum(a) == Cardinality({i \in idx : x[i] = a})
        csum(b) == Cardinality({i \in idx : y[i] = b})
        w(a, b) ==
            IF dof = 1
            THEN Max2(0, 2 * Abs(n * obs(a, b) - rsum(a) * csum(b)) - n)
            ELSE 2 * Abs(n * obs(a, b) - rsum(a) * csum(b))
        rl == LcmSet({rsum(a) : a \in rows})
        cl == LcmSet({csum(b) : b \in cols})
        total == ISumFn([c \in rows \X cols |->
                    w(c[1], c[2]) * w(c[1], c[2]) * (rl \div rsum(c[1])) * (cl \div csum(c[2]))])
    IN  IF dof = 0 THEN Zero
        ELSE RDiv(Rat(total, rl * cl), RInt(4 * n))

\* The value cramers_v returns, and the line it returns from.
cramers_v_at(x, y) ==
    LET xi == NotNullIdx(x)
        yi == NotNullIdx(y)
        min_len == Min2(Len(xi), Len(yi))
        \* x_clean / y_clean after the alignment of lines 60-64, as label sets
        xl == SeqToSet(SubSeq(xi, 1, min_len))
        yl == SeqToSet(SubSeq(yi, 1, min_len))
        \* pd.crosstab pairs the two series on their common index labels
        common == xl \cap yl
        n == Cardinality(common)
        r == Cardinality({x[i] : i \in common})
        k == Cardinality({y[i] : i \in common})
        chi2 == chi2_contingency(x, y, common)
        phi2 == RDiv(chi2, RInt(n))
        phi2corr == RMax(Zero, RSub(phi2, Rat((k - 1) * (r - 1), n - 1)))
        rcorr == RSub(RInt(r), Rat((r - 1) * (r - 1), n - 1))
        kcorr == RSub(RInt(k), Rat((k - 1) * (k - 1), n - 1))
        denominator == RMin(RSub(kcorr, One), RSub(rcorr, One))
    IN  IF Len(xi) = 0 \/ Len(yi) = 0 THEN [v |-> Zero, line |-> 58]
        ELSE IF Cardinality({x[i] : i \in xl}) = 1 \/ Cardinality({y[i] : i \in yl}) = 1
             THEN [v |-> Zero, line |-> 69]
        ELSE IF n = 0 THEN [v |-> Zero, line |-> 76]
        ELSE IF n <= 1 THEN [v |-> Zero, line |-> 84]
        ELSE IF r = 1 \/ k = 1 THEN [v |-> Zero, line |-> 91]
        ELSE IF RLe(denominator, Zero)
             THEN IF Min2(k - 1, r - 1) <= 0 THEN [v |-> Zero, line |-> 105]
                  ELSE [v |-> ClampedSqrt(RDiv(phi2, RInt(Min2(k - 1, r - 1)))), line |-> 106]
             ELSE [v |-> ClampedSqrt(RDiv(phi2corr, denominator)), line |-> 108]

cramers_v(x, y) == cramers_v_at(x, y).v

\* Variant: without the both-empty case of lines 133-134.
jaccard_distance_without_empty_case(x, y) ==
    LET set_x == unique(dropna(x))
        set_y == unique(dropna(y))
        intersection == Cardinality(set_x \cap set_y)
        union == Cardinality(set_x \cup set_y)
    IN  IF union > 0 THEN RSub(One, Rat(intersection, union)) ELSE One

jaccard_distance(x, y) ==
    LET set_x == unique(dropna(x))
        set_y == unique(dropna(y))
        intersection == Cardinality(set_x \cap set_y)
        union == Cardinality(set_x \cup set_y)
    IN  IF Cardinality(set_x) = 0 /\ Cardinality(set_y) = 0 THEN Zero
        ELSE IF union > 0 THEN RSub(One, Rat(intersection, union)) ELSE One

\* ---- numerical metrics ----

\* The numbers of a column whose non-missing cells are all numbers.
Nums(col) == [i \in 1..Len(dropna(col)) |-> dropna(col)[i].n]

SeqMax(s) == CHOOSE m \in SeqToSet(s) : \A v \in SeqToSet(s) : v <= m
SeqMin(s) == CHOOSE m \in SeqToSet(s) : \A v \in SeqToSet(s) : m <= v

\* Number of values of the sample s that are <= t.
CountLe(s, t) == Cardinality({i \in 1..Len(s) : s[i] <= t})

\* |F_u(t) - F_v(t)| * Len(u) * Len(v), F the empirical distribution function.
CdfGap(u, v, t) == Abs(CountLe(u, t) * Len(v) - CountLe(v, t) * Len(u))

\* scipy.stats.wasserstein_distance(u, v): the area between the two empirical
\* distribution functions (samples of integers: the functions are constant on
\* every [t, t + 1)).
wasserstein_distance(u, v) ==
    LET lo == Min2(SeqMin(u), SeqMin(v))
        hi == Max2(SeqMax(u), SeqMax(v))
    IN  Rat(ISumFn([t \in lo..(hi - 1) |-> CdfGap(u, v, t)]), Len(u) * Len(v))

\* astype(float) raises on either column: the bare except returns the sentinel.
AstypeFloatFails(x, y) == ~CoercesToNumber(dropna(x)) \/ ~CoercesToNumber(dropna(y))

\* Variant: the quotient is returned without the cap at 1.
wasserstein_distance_uncapped(x, y) ==
    IF AstypeFloatFails(x, y) THEN One
    ELSE LET x_clean == Nums(x)
             y_clean == Nums(y)
             wd == wasserstein_distance(x_clean, y_clean)
             x_range == SeqMax(x_clean) - SeqMin(x_clean)
         IN  IF Len(x_clean) = 0 \/ Len(y_clean) = 0 THEN One
             ELSE IF x_range = 0 THEN (IF wd = Zero THEN Zero ELSE One)
             ELSE RDiv(wd, RInt(x_range))

wasserstein_distance_normalized(x, y) ==
    IF AstypeFloatFails(x, y) THEN One
    ELSE LET x_clean == Nums(x)
             y_clean == Nums(y)
             wd == wasserstein_distance(x_clean, y_clean)
             x_range == SeqMax(x_clean) - SeqMin(x_clean)
         IN  IF Len(x_clean) = 0 \/ Len(y_clean) = 0 THEN One
             ELSE IF x_range = 0 THEN (IF wd = Zero THEN Zero ELSE One)
             ELSE RMin(One, RDiv(wd, RInt(x_range)))

\* scipy.stats.ks_2samp(x, y).statistic: the largest gap between the two
\* empirical distribution functions.
ks_2samp(u, v) ==
    LET pts == SeqToSet(u) \cup SeqToSet(v)
        best == CHOOSE t \in pts : \A t2 \in pts : CdfGap(u, v, t2) <= CdfGap(u, v, t)
    IN  Rat(CdfGap(u, v, best), Len(u) * Len(v))

\* Variant: a failed conversion gives 0, the sentinel of the association
\* metric.
kolmogorov_smirnov_distance_zero_sentinel(x, y) ==
    IF AstypeFloatFails(x, y) THEN Zero
    ELSE LET x_clean == Nums(x)
             y_clean == Nums(y)
         IN  IF Len(x_clean) = 0 \/ Len(y_clean) = 0 THEN One
             ELSE ks_2samp(x_clean, y_clean)

kolmogorov_smirnov_distance(x, y) ==
    IF AstypeFloatFails(x, y) THEN One
    ELSE LET x_clean == Nums(x)
             y_clean == Nums(y)
         IN  IF Len(x_clean) = 0 \/ Len(y_clean) = 0 THEN One
             ELSE ks_2samp(x_clean, y_clean)

\* Series.mean().
SMean(s) == Rat(ISumFn(s), Len(s))

\* Series.std() ** 2 (ddof = 1) for a sample of at least two values:
\* (n * sum(v^2) - sum(v)^2) / (n * (n - 1)).
SVar(s) ==
    Rat(Len(s) * ISumFn([i \in 1..Len(s) |-> s[i] * s[i]]) - ISumFn(s) * ISumFn(s),
        Len(s) * (Len(s) - 1))

mean_shift_distance(x, y) ==
    IF AstypeFloatFails(x, y) THEN One
    ELSE LET x_clean == Nums(x)
             y_clean == Nums(y)
             mean_diff == RSub(SMean(x_clean), SMean(y_clean))
         IN  IF Len(x_clean) = 0 \/ Len(y_clean) = 0 THEN One
             \* one value: std() is NaN, NaN == 0 is False, min(1.0, NaN) is 1.0
             ELSE IF Len(x_clean) = 1 THEN One
             ELSE IF SVar(x_clean) = Zero THEN (IF mean_diff = Zero THEN Zero ELSE One)
             \* min(1.0, mean_diff / x_std)
             ELSE ClampedSqrt(RDiv(RMul(mean_diff, mean_diff), SVar(x_clean)))

\* ---- text metric ----

DigitChar == <<"0", "1", "2", "3", "4", "5", "6", "7", "8", "9">>

RECURSIVE Digits(_)
Digits(i) ==
    IF i < 0 THEN <<"-">> \o Digits(-i)
    ELSE IF i < 10 THEN <<DigitChar[i + 1]>>
    ELSE Digits(i \div 10) \o <<DigitChar[(i % 10) + 1]>>

\* pandas stores a column of numbers with missing cells as float64.
IsFloatCol(col) ==
    /\ Len(dropna(col)) > 0
    /\ Len(dropna(col)) < Len(col)
    /\ CoercesToNumber(dropna(col))

\* str(v) of a cell: 1 prints as "1" in an int64 or object column, "1.0" in a
\* float64 column.
StrOf(v, isFloat) ==
    IF IsNum(v) THEN Digits(v.n) \o (IF isFloat THEN <<".", "0">> ELSE <<>>)
    ELSE v.s

\* Series.dropna().astype(str)
AsStr(col) == [i \in 1..Len(dropna(col)) |-> StrOf(dropna(col)[i], IsFloatCol(col))]

\* Matching triples <<i, j, k>>: a[i .. i+k-1] = b[j .. j+k-1], k >= 1.
Matches(a, b) ==
    {t \in (1..Len(a)) \X (1..Len(b)) \X (1..Min2(Len(a), Len(b))) :
        /\ t[1] + t[3] - 1 <= Len(a)
        /\ t[2] + t[3] - 1 <= Len(b)
        /\ SubSeq(a, t[1], t[1] + t[3] - 1) = SubSeq(b, t[2], t[2] + t[3] - 1)}

\* SequenceMatcher.find_longest_match: the longest block, of those the one
\* starting earliest in a, of those the one starting earliest in b.
find_longest_match(a, b) ==
    CHOOSE t \in Matches(a, b) :
        \A u \in Matches(a, b) :
            \/ u[3] < t[3]
            \/ (u[3] = t[3] /\ t[1] < u[1])
            \/ (u[3] = t[3] /\ t[1] = u[1] /\ t[2] <= u[2])

\* Total size of SequenceMatcher.get_matching_blocks().
RECURSIVE MatchedChars(_, _)
MatchedChars(a, b) ==
    IF Matches(a, b) = {} THEN 0
    ELSE LET t == find_longest_match(a, b)
         IN  t[3]
             + MatchedChars(SubSeq(a, 1, t[1] - 1), SubSeq(b, 1, t[2] - 1))
             + MatchedChars(SubSeq(a, t[1] + t[3], Len(a)), SubSeq(b, t[2] + t[3], Len(b)))

\* difflib.SequenceMatcher(None, a, b).ratio()
SequenceMatcherRatio(a, b) ==
    IF Len(a) + Len(b) = 0 THEN One
    ELSE Rat(2 * MatchedChars(a, b), Len(a) + Len(b))

SampleCap == 100

unique_replacement_dist(x, y) ==
    LET x_unique == SeqToSet(AsStr(x))
        y_unique == SeqToSet(AsStr(y))
    IN  IF Cardinality(x_unique) = 0 THEN Zero
        ELSE RSub(One, Rat(Cardinality(x_unique \cap y_unique), Cardinality(x_unique)))

\* Variant: every pair is compared, without the cap of 100.
string_similarity_dist_all_pairs(x, y) ==
    LET x_str == AsStr(x)
        y_str == AsStr(y)
        sample_size == Min2(Len(x_str), Len(y_str))
        similarities == [i \in 1..sample_size |-> SequenceMatcherRatio(x_str[i], y_str[i])]
    IN  IF Len(x_str) = 0 \/ Len(y_str) = 0 THEN One
        ELSE RSub(One, Mean(similarities))

string_similarity_dist(x, y) ==
    LET x_str == AsStr(x)
        y_str == AsStr(y)
        sample_size == Min2(Min2(Len(x_str), Len(y_str)), SampleCap)
        similarities == [i \in 1..sample_size |-> SequenceMatcherRatio(x_str[i], y_str[i])]
    IN  IF Len(x_str) = 0 \/ Len(y_str) = 0 THEN One
        ELSE RSub(One, Mean(similarities))

text_similarity_distance(x, y) ==
    Mean(<<unique_replacement_dist(x, y), string_similarity_dist(x, y)>>)

\* ------------------------------------------------------------------------
\* Column scorer
\* ------------------------------------------------------------------------

\* Variant: the metrics are chosen from the type of the transformed column.
calculate_column_distance_by_anonymized(original, anonymized) ==
    LET column_type == detect_column_type(anonymized)
    IN  IF column_type = "categorical"
        THEN Mean(<<RSub(One, cramers_v(original, anonymized)),
                    jaccard_distance(original, anonymized)>>)
        ELSE IF column_type = "numerical"
        THEN Mean(<<wasserstein_distance_normalized(original, anonymized),
                    kolmogorov_smirnov_distance(original, anonymized),
                    mean_shift_distance(original, anonymized)>>)
        ELSE text_similarity_distance(original, anonymized)

calculate_column_distance(original, anonymized) ==
    LET column_type == detect_column_type(original)
    IN  IF column_type = "categorical"
        THEN Mean(<<RSub(One, cramers_v(original, anonymized)),
                    jaccard_distance(original, anonymized)>>)
        ELSE IF column_type = "numerical"
        THEN Mean(<<wasserstein_distance_normalized(original, anonymized),
                    kolmogorov_smirnov_distance(original, anonymized),
                    mean_shift_distance(original, anonymized)>>)
        ELSE text_similarity_distance(original, anonymized)

\* ------------------------------------------------------------------------
\* Global aggregator
\* ------------------------------------------------------------------------

\* A Python dict is a sequence of <<key, value>> pairs in insertion order.
Keys(d) == [i \in 1..Len(d) |-> d[i][1]]
HasKey(d, key) == \E i \in 1..Len(d) : d[i][1] = key

\* Variant: the check compares the row counts only.
shape_rows_only(df) == <<df.nrows, 0>>

\* A DataFrame: its column labels in order, its number of rows, its columns.
shape(df) == <<df.nrows, Len(df.columns)>>

\* Variant: a column missing from the weight map counts with weight 0.
WeightOf_default_zero(weights, column) ==
    IF column \in DOMAIN weights THEN RInt(weights[column]) ELSE Zero

\* self.column_weights.get(column, 1.0); the weight map is a function from the
\* columns it names to their weights.
WeightOf(weights, column) ==
    IF column \in DOMAIN weights THEN RInt(weights[column]) ELSE One

\* Variant: the band limits belong to the lower band (<= instead of <).
_interpret_score_inclusive(score) ==
    IF RLe(score, RInt(20)) THEN "Very Low Anonymization - Data is largely unchanged"
    ELSE IF RLe(score, RInt(40)) THEN "Low Anonymization - Some changes but patterns remain"
    ELSE IF RLe(score, RInt(60)) THEN "Moderate Anonymization - Reasonable privacy protection"
    ELSE IF RLe(score, RInt(80)) THEN "High Anonymization - Strong privacy protection"
    ELSE "Very High Anonymization - Maximum privacy protection"

_interpret_score(score) ==
    IF RLt(score, RInt(20)) THEN "Very Low Anonymization - Data is largely unchanged"
    ELSE IF RLt(score, RInt(40)) THEN "Low Anonymization - Some changes but patterns remain"
    ELSE IF RLt(score, RInt(60)) THEN "Moderate Anonymization - Reasonable privacy protection"
    ELSE IF RLt(score, RInt(80)) THEN "High Anonymization - Strong privacy protection"
    ELSE "Very High Anonymization - Maximum privacy protection"

\* Lines 360-369: the weighted mean of the column distances.
total_weight(distances, weights) ==
    RSumFn([i \in 1..Len(distances) |-> WeightOf(weights, distances[i][1])])

weighted_sum(distances, weights) ==
    RSumFn([i \in 1..Len(distances) |->
                RMul(WeightOf(weights, distances[i][1]), distances[i][2])])

\* Variant: the weighted sum is divided by the sum of the distances.
global_distance_over_distances(distances, weights) ==
    LET total == RSumFn([i \in 1..Len(distances) |-> distances[i][2]])
    IN  IF RLt(Zero, total)
        THEN RDiv(weighted_sum(distances, weights), total)
        ELSE Zero

global_distance(distances, weights) ==
    IF RLt(Zero, total_weight(distances, weights))
    THEN RDiv(weighted_sum(distances, weights), total_weight(distances, weights))
    ELSE Zero

\* Variant: the distance as a percentage.
anonify_score_percent(distances, weights) ==
    RMul(RInt(100), global_distance(distances, weights))

\* Line 372.
anonify_score(distances, weights) ==
    RAdd(One, RMul(RInt(99), global_distance(distances, weights)))

\* Variant: the column scores are returned as computed, without rounding.
ScoreResult_unrounded_columns(distances, types, weights) ==
    [raised |-> "none",
     anonify_score |-> Round(anonify_score(distances, weights), 100),
     global_distance |-> Round(global_distance(distances, weights), 10000),
     column_scores |-> distances,
     column_types |-> types,
     total_columns |-> Len(distances),
     score_interpretation |-> _interpret_score(anonify_score(distances, weights))]

\* Lines 378-385: the dict calculate_global_score returns.
ScoreResult(distances, types, weights) ==
    [raised |-> "none",
     anonify_score |-> Round(anonify_score(distances, weights), 100),
     global_distance |-> Round(global_distance(distances, weights), 10000),
     column_scores |-> [i \in 1..Len(distances) |->
                           <<distances[i][1], Round(distances[i][2], 10000)>>],
     column_types |-> types,
     total_columns |-> Len(distances),
     score_interpretation |-> _interpret_score(anonify_score(distances, weights))]

\* Line 344.
ShapeError == [raised |-> "ValueError"]

\* ------------------------------------------------------------------------
\* State
\* ------------------------------------------------------------------------

VARIABLES
    pc,               \* where the modelled call stands
    x, y,             \* metric library: the (original, transformed) column pair
    metrics,          \* metric library: what each metric function returned
    original_df,      \* calculate_global_score: first argument
    anonymized_df,    \* calculate_global_score: second argument
    column_weights,   \* AnonymizationScorer.column_weights
    column_scores,    \* AnonymizationScorer.column_scores
    global_score,     \* AnonymizationScorer.global_score
    column_distances, \* calculate_global_score: local dict of column distances
    column_types,     \* calculate_global_score: local dict of column types
    col_i,            \* calculate_global_score: position of the column loop
    result,           \* what the call returned, or the error it raised
    calls,            \* calls of calculate_global_score made on the scorer
    dataframe,        \* the caller's DataFrame object
    given,            \* what the caller's DataFrame held when the call was made
    yaml_config,      \* the configuration as the caller gave it
    args,             \* the function called and its other arguments
    dataframe_copy,   \* the DataFrame object passed to preprocess
    pp_dataframe,     \* preprocess: the object its name `dataframe` is bound to
    pp_obj,           \* preprocess: which object that is (caller, copy, new)
    config,           \* preprocess: config['columns'], or that the key is missing
    cfg_i, act_i      \* preprocess: position of the column loop and action loop

\* The state of the scoring engine and the state of the transformation
\* pipeline (deidentify and preprocess).
scorer == <<x, y, metrics, column_weights, column_scores, global_score,
            column_distances, column_types, col_i, calls>>

scoring == <<original_df, anonymized_df, scorer>>

pipeline == <<dataframe, given, yaml_config, args, dataframe_copy, pp_dataframe, pp_obj,
              config, cfg_i, act_i>>

vars == <<pc, result, scoring, pipeline>>

None == [none |-> TRUE]
NoDf == [columns |-> <<>>, nrows |-> 0, data |-> <<>>]

\* No deidentify or preprocess call is in progress.
PipelineIdle ==
    /\ dataframe = NoDf
    /\ given = NoDf
    /\ yaml_config = None
    /\ args = None
    /\ dataframe_copy = NoDf
    /\ pp_dataframe = NoDf
    /\ pp_obj = "none"
    /\ config = None
    /\ cfg_i = 0
    /\ act_i = 0

\* ------------------------------------------------------------------------
\* Metric library specification: every metric applied to a column pair
\* ------------------------------------------------------------------------

MaxPat == 3
MaxRep == 3

A == Str(<<"a">>)
B == Str(<<"b">>)
C == Str(<<"c">>)
XValues == {Null, Num(1), Num(2), A, B}
YValues == {Null, Num(1), Num(3), A, C}

\* The pattern p repeated k times (['A', 'B', 'C'] * k).
Repeat(p, k) == [i \in 1..(Len(p) * k) |-> p[((i - 1) % Len(p)) + 1]]

Patterns(V) == UNION {[1..len -> V] : len \in 0..MaxPat}

X == Str(<<"x">>)
Y == Str(<<"y">>)
Z == Str(<<"z">>)

\* The scenarios of tests/test_scoring_integration.py, test_statistical_methods.
ScenarioPairs ==
    {<<Repeat(<<A, B, C>>, 10), Repeat(<<A, B, C>>, 10)>>,
     <<Repeat(<<A, B, C>>, 10), Repeat(<<X, Y, Z>>, 10)>>}

ColumnPairs ==
    ScenarioPairs \cup
    {<<Repeat(p, k), Repeat(q, k)>> :
        <<p, q, k>> \in {t \in Patterns(XValues) \X Patterns(YValues) \X (1..MaxRep) :
                          Len(t[1]) = Len(t[2])}}
    \cup {<<Repeat(p, k), Repeat(p, k)>> : <<p, k>> \in Patterns(XValues) \X (1..MaxRep)}

AllMetrics(a, b) ==
    [column_type |-> detect_column_type(a),
     cramers_v |-> cramers_v(a, b),
     jaccard_distance |-> jaccard_distance(a, b),
     wasserstein_distance_normalized |-> wasserstein_distance_normalized(a, b),
     kolmogorov_smirnov_distance |-> kolmogorov_smirnov_distance(a, b),
     mean_shift_distance |-> mean_shift_distance(a, b),
     text_similarity_distance |-> text_similarity_distance(a, b),
     distance |-> calculate_column_distance(a, b)]

ScorerIdle ==
    /\ original_df = NoDf
    /\ anonymized_df = NoDf
    /\ column_weights = <<>>
    /\ column_scores = <<>>
    /\ global_score = None
    /\ column_distances = <<>>
    /\ column_types = <<>>
    /\ col_i = 0
    /\ result = None
    /\ calls = 0

MetricInit ==
    /\ pc = "column"
    /\ \E cp \in ColumnPairs : x = cp[1] /\ y = cp[2]
    /\ metrics = None
    /\ ScorerIdle
    /\ PipelineIdle

ApplyMetrics ==
    /\ pc = "column"
    /\ metrics' = AllMetrics(x, y)
    /\ pc' = "measured"
    /\ UNCHANGED <<calls, pipeline, x, y, original_df, anonymized_df, column_weights,
                   column_scores, global_score, column_distances, column_types,
                   col_i, result>>

MetricNext == ApplyMetrics

SpecMetric == MetricInit /\ [][MetricNext]_vars

\* ------------------------------------------------------------------------
\* Scorer specification: AnonymizationScorer.calculate_global_score
\* ------------------------------------------------------------------------

MaxDfRows == 1
MaxCols == 2

Names == {"a", "b", "c"}
DfValues == {Null, Num(1), A}
Weights == {0, 2}

\* Column labels are distinct.
ColumnLists ==
    {cs \in UNION {[1..len -> Names] : len \in 0..MaxCols} :
        \A i, j \in 1..Len(cs) : cs[i] = cs[j] => i = j}

Frames ==
    UNION {{[columns |-> cs, nrows |-> n, data |-> d] :
               d \in [SeqToSet(cs) -> [1..n -> DfValues]]} :
           <<cs, n>> \in ColumnLists \X (0..MaxDfRows)}

WeightMaps == UNION {[S -> Weights] : S \in SUBSET Names}

\* AnonymizationScorer(column_weights), then a call of calculate_global_score.
Init ==
    /\ pc = "called"
    /\ original_df \in Frames
    /\ anonymized_df \in Frames
    /\ column_weights \in WeightMaps
    /\ column_scores = <<>>
    /\ global_score = None
    /\ column_distances = <<>>
    /\ column_types = <<>>
    /\ col_i = 0
    /\ result = None
    /\ x = <<>>
    /\ y = <<>>
    /\ metrics = None
    /\ calls = 1
    /\ PipelineIdle

\* Variant: frames without columns are rejected as well.
CheckShape_reject_empty ==
    /\ pc = "called"
    /\ IF shape(original_df) # shape(anonymized_df) \/ Len(original_df.columns) = 0
       THEN /\ result' = ShapeError
            /\ pc' = "raised"
            /\ UNCHANGED <<column_distances, column_types, col_i>>
       ELSE /\ column_distances' = <<>>
            /\ column_types' = <<>>
            /\ col_i' = 1
            /\ pc' = "scoring"
            /\ UNCHANGED result
    /\ UNCHANGED <<calls, pipeline, x, y, metrics, original_df, anonymized_df, column_weights,
                   column_scores, global_score>>

\* Variant: a call that raises resets the two fields of the scorer.
CheckShape_clearing_cache ==
    /\ pc = "called"
    /\ IF shape(original_df) # shape(anonymized_df)
       THEN /\ result' = ShapeError
            /\ pc' = "raised"
            /\ column_scores' = <<>>
            /\ global_score' = None
            /\ UNCHANGED <<column_distances, column_types, col_i>>
       ELSE /\ column_distances' = <<>>
            /\ column_types' = <<>>
            /\ col_i' = 1
            /\ pc' = "scoring"
            /\ UNCHANGED <<result, column_scores, global_score>>
    /\ UNCHANGED <<calls, pipeline, x, y, metrics, original_df, anonymized_df, column_weights>>

\* Lines 343-347: the shape check, then the two empty dicts.
CheckShape ==
    /\ pc = "called"
    /\ IF shape(original_df) # shape(anonymized_df)
       THEN /\ result' = ShapeError
            /\ pc' = "raised"
            /\ UNCHANGED <<column_distances, column_types, col_i>>
       ELSE /\ column_distances' = <<>>
            /\ column_types' = <<>>
            /\ col_i' = 1
            /\ pc' = "scoring"
            /\ UNCHANGED result
    /\ UNCHANGED <<calls, pipeline, x, y, metrics, original_df, anonymized_df, column_weights,
                   column_scores, global_score>>

\* Lines 350-358: one turn of the loop over original_df.columns.
ScoreColumn ==
    /\ pc = "scoring"
    /\ col_i <= Len(original_df.columns)
    /\ LET column == original_df.columns[col_i]
       IN  IF column \in SeqToSet(anonymized_df.columns)
           THEN /\ column_distances' = Append(column_distances,
                      <<column, calculate_column_distance(original_df.data[column],
                                                          anonymized_df.data[column])>>)
                /\ column_types' = Append(column_types,
                      <<column, detect_column_type(original_df.data[column])>>)
           ELSE UNCHANGED <<column_distances, column_types>>
    /\ col_i' = col_i + 1
    /\ UNCHANGED <<pc, calls, pipeline, x, y, metrics, original_df, anonymized_df, column_weights,
                   column_scores, global_score, result>>

\* Variant: the score is computed once per scorer and then taken from
\* self.global_score.
AggregateAndReturn_cached ==
    /\ column_scores' = column_distances
    /\ global_score' = IF global_score = None
                       THEN anonify_score(column_distances, column_weights)
                       ELSE global_score
    /\ result' = [ScoreResult(column_distances, column_types, column_weights)
                     EXCEPT !.anonify_score = Round(global_score', 100)]
    /\ pc' = "returned"

\* Lines 360-385: aggregate, store on the scorer, return.
AggregateAndReturn ==
    /\ column_scores' = column_distances
    /\ global_score' = anonify_score(column_distances, column_weights)
    /\ result' = ScoreResult(column_distances, column_types, column_weights)
    /\ pc' = "returned"

Aggregate ==
    /\ pc = "scoring"
    /\ col_i > Len(original_df.columns)
    /\ AggregateAndReturn
    /\ UNCHANGED <<calls, pipeline, x, y, metrics, original_df, anonymized_df, column_weights,
                   column_distances, column_types, col_i>>

Next == CheckShape \/ ScoreColumn \/ Aggregate

Spec == Init /\ [][Next]_vars

\* ------------------------------------------------------------------------
\* Aggregator specification: lines 360-385 applied to given column distances
\* ------------------------------------------------------------------------

AggDistances == {Zero, Rat(1, 5), Rat(1, 3), Half, Rat(4, 5), One}

\* The dicts the column loop can leave behind: distinct columns, one distance
\* in [0, 1] and one type each.
DistanceDicts ==
    UNION {{[i \in 1..Len(cs) |-> <<cs[i], d[i]>>] : d \in [1..Len(cs) -> AggDistances]} :
           cs \in ColumnLists}

AggInit ==
    /\ pc = "aggregate"
    /\ column_distances \in DistanceDicts
    /\ column_types = [i \in 1..Len(column_distances) |-> <<column_distances[i][1], "numerical">>]
    /\ column_weights \in WeightMaps
    /\ column_scores = <<>>
    /\ global_score = None
    /\ original_df = NoDf
    /\ anonymized_df = NoDf
    /\ col_i = 0
    /\ result = None
    /\ x = <<>>
    /\ y = <<>>
    /\ metrics = None
    /\ calls = 0
    /\ PipelineIdle

AggregateDistances ==
    /\ pc = "aggregate"
    /\ AggregateAndReturn
    /\ UNCHANGED <<calls, pipeline, x, y, metrics, original_df, anonymized_df, column_weights,
                   column_distances, column_types, col_i>>

AggNext == AggregateDistances

SpecAgg == AggInit /\ [][AggNext]_vars

\* ------------------------------------------------------------------------
\* Properties of calculate_global_score (specification Spec)
\* ------------------------------------------------------------------------

SameShape ==
    /\ original_df.nrows = anonymized_df.nrows
    /\ Len(original_df.columns) = Len(anonymized_df.columns)

CommonColumns == SeqToSet(original_df.columns) \cap SeqToSet(anonymized_df.columns)

ResultKeys ==
    {"anonify_score", "global_distance", "column_scores", "column_types",
     "total_columns", "score_interpretation"}

\* C1: when the two dataframes differ in row count or in column count,
\* calculate_global_score raises ValueError, and it does so before any column
\* is classified or scored: the column loop has not started, the two local
\* dicts are empty and the scorer's fields are untouched.
C1_ShapeMismatchRaisesFirst ==
    (pc # "called" /\ ~SameShape) =>
        /\ pc = "raised"
        /\ result = ShapeError
        /\ col_i = 0
        /\ column_distances = <<>>
        /\ column_types = <<>>
        /\ column_scores = <<>>
        /\ global_score = None

\* C1 witness: the call has raised on two dataframes with the same number of
\* rows and a different number of columns, the original having columns to score.
C1_Witness ==
    /\ pc = "raised"
    /\ result = ShapeError
    /\ original_df.nrows = anonymized_df.nrows
    /\ Len(original_df.columns) > Len(anonymized_df.columns)

C3_NoCommonColumnRaises ==
    (pc \in {"returned", "raised"} /\ CommonColumns = {}) => pc = "raised"

\* ------------------------------------------------------------------------
\* Properties of the aggregation (specifications SpecAgg and Spec)
\* ------------------------------------------------------------------------

\* The weight a column counts with: its entry in the weight map, or 1.
EffectiveWeight(c) == IF c \in DOMAIN column_weights THEN column_weights[c] ELSE 1

TotalEffectiveWeight ==
    ISumFn([i \in 1..Len(column_distances) |-> EffectiveWeight(column_distances[i][1])])

WeightedDistanceSum ==
    RSumFn([i \in 1..Len(column_distances) |->
               RMul(RInt(EffectiveWeight(column_distances[i][1])), column_distances[i][2])])

\* The unrounded global distance of the call, read back from the score the
\* scorer keeps: global_score = 1 + 99 * global_distance.
StoredGlobalDistance == RDiv(RSub(global_score, One), RInt(99))

\* The dict without its i-th entry.
Without(d, i) == [j \in 1..(Len(d) - 1) |-> IF j < i THEN d[j] ELSE d[j + 1]]

\* C4: global_distance is sum(weight * distance) / sum(weight) over the scored
\* columns, a column missing from the weight map counting with weight 1.0; it
\* is 0 when no column is scored; a column of weight 0 can be removed without
\* changing it; {a: 0.2, b: 0.8} with equal weights gives 0.5 and score 50.5.
C4_WeightedMean ==
    pc = "returned" =>
        /\ TotalEffectiveWeight > 0 =>
              RMul(StoredGlobalDistance, RInt(TotalEffectiveWeight)) = WeightedDistanceSum
        /\ TotalEffectiveWeight = 0 => StoredGlobalDistance = Zero
        /\ Len(column_distances) = 0 => StoredGlobalDistance = Zero
        /\ result.global_distance = Round(StoredGlobalDistance, 10000)
        /\ global_score =
              anonify_score(column_distances, [c \in Names |-> EffectiveWeight(c)])
        /\ \A i \in 1..Len(column_distances) :
              EffectiveWeight(column_distances[i][1]) = 0 =>
                  global_score = anonify_score(Without(column_distances, i), column_weights)
        /\ ( /\ column_distances = << <<"a", Rat(1, 5)>>, <<"b", Rat(4, 5)>> >>
             /\ EffectiveWeight("a") = EffectiveWeight("b")
             /\ EffectiveWeight("a") > 0 ) =>
              /\ StoredGlobalDistance = Half
              /\ result.global_distance = Half
              /\ result.anonify_score = Rat(101, 2)

\* C4 witness: {a: 0.2, b: 0.8} aggregated with a weight map that names only
\* one of the two columns, with weight 0 for a third one.
C4_Witness ==
    /\ pc = "returned"
    /\ column_distances = << <<"a", Rat(1, 5)>>, <<"b", Rat(4, 5)>> >>
    /\ DOMAIN column_weights = {"c"}
    /\ column_weights["c"] = 0
    /\ result.global_distance = Half
    /\ result.anonify_score = Rat(101, 2)

PositiveWeights == \A c \in DOMAIN column_weights : column_weights[c] > 0

\* C5: the reported anonify_score is 1 + 99 * global_distance rounded to two
\* decimals, and with positive column weights it lies in [1, 100].
C5_ScoreScaleAndRange ==
    (pc = "returned" /\ PositiveWeights) =>
        /\ result.anonify_score =
              Round(RAdd(One, RMul(RInt(99),
                    IF TotalEffectiveWeight > 0
                    THEN RDiv(WeightedDistanceSum, RInt(TotalEffectiveWeight))
                    ELSE Zero)), 100)
        /\ RLe(One, result.anonify_score)
        /\ RLe(result.anonify_score, RInt(100))

\* C5 witness: a score strictly inside the range, returned for two scored
\* columns under a weight map with positive weights.
C5_Witness ==
    /\ pc = "returned"
    /\ PositiveWeights
    /\ DOMAIN column_weights # {}
    /\ Len(column_distances) = 2
    /\ RLt(One, result.anonify_score)
    /\ RLt(result.anonify_score, RInt(100))

\* ------------------------------------------------------------------------
\* Properties of the metric library (specification SpecMetric)
\* ------------------------------------------------------------------------

Tolerance == Rat(1, 20)

\* C6: every metric function and calculate_column_distance return a value in
\* [0, 1] for every column pair, empty, all-null and constant columns included.
C6_MetricsInUnitInterval ==
    pc = "measured" =>
        /\ InUnit(RSub(One, metrics.cramers_v))
        /\ InUnit(metrics.jaccard_distance)
        /\ InUnit(metrics.wasserstein_distance_normalized)
        /\ InUnit(metrics.kolmogorov_smirnov_distance)
        /\ InUnit(metrics.mean_shift_distance)
        /\ InUnit(metrics.text_similarity_distance)
        /\ InUnit(metrics.distance)

\* C6 witness: the metrics were applied to a numerical original with missing
\* cells and a transformed column of numbers that lie further from the
\* original's values than the original's range (the quotient of the
\* distribution-shift distance exceeds 1 before the cap).
C6_Witness ==
    /\ pc = "measured"
    /\ metrics.column_type = "numerical"
    /\ Len(dropna(x)) < Len(x)
    /\ unique(dropna(x)) = {Num(1), Num(2)}
    /\ unique(y) = {Num(3)}
    /\ metrics.wasserstein_distance_normalized = One
    /\ metrics.distance = One

\* C7 (as claimed): a categorical or text column scored against an identical
\* copy has distance 0: its association distance is approximately 0 and its
\* set-overlap distance is 0.
C7_IdenticalCopyHasZeroDistance ==
    (pc = "measured" /\ x = y /\ metrics.column_type \in {"categorical", "text"}) =>
        /\ RLe(metrics.distance, Tolerance)
        /\ (metrics.column_type = "categorical" /\ Len(dropna(x)) > 0) =>
              /\ RLe(RSub(One, metrics.cramers_v), Tolerance)
              /\ metrics.jaccard_distance = Zero

DegenerateLines == {58, 69, 76, 84, 91, 105}

\* C8 (as claimed): in every degenerate case of the association metric the
\* association distance that enters the categorical column score is 0.
C8_DegenerateAssociationIsZeroDistance ==
    (pc = "measured" /\ metrics.column_type = "categorical"
        /\ cramers_v_at(x, y).line \in DegenerateLines) =>
        /\ RSub(One, metrics.cramers_v) = Zero
        /\ metrics.distance = RDiv(metrics.jaccard_distance, RInt(2))

\* C9 (as claimed): ['A','B','C'] repeated against ['X','Y','Z'] repeated has
\* cramers_v below 0.5, set-overlap distance 1 and a column distance of
\* approximately 1.
C9_DisjointCategoriesScoreOne ==
    (pc = "measured" /\ x = Repeat(<<A, B, C>>, 10) /\ y = Repeat(<<X, Y, Z>>, 10)) =>
        /\ RLt(metrics.cramers_v, Half)
        /\ metrics.jaccard_distance = One
        /\ RLe(RSub(One, Tolerance), metrics.distance)

\* C10: detect_column_type depends on the non-missing values only: none gives
\* 'categorical'; all numbers gives 'numerical'; otherwise 'categorical' when
\* distinct / total < 0.5 and 'text' when the ratio is 0.5 or more.
C10_ColumnTypeRule ==
    pc = "measured" =>
        LET kept == {i \in 1..Len(x) : x[i].k # "null"}
            distinct == Cardinality({x[i] : i \in kept})
            expected ==
                IF kept = {} THEN "categorical"
                ELSE IF \A i \in kept : x[i].k = "num" THEN "numerical"
                ELSE IF 2 * distinct < Cardinality(kept) THEN "categorical"
                ELSE "text"
        IN  /\ metrics.column_type = expected
            /\ metrics.column_type = detect_column_type(dropna(x))

\* C10 witness: a column with missing cells whose non-missing values are not
\* all numbers and of which exactly half are distinct is classified as text.
C10_Witness ==
    /\ pc = "measured"
    /\ Len(dropna(x)) < Len(x)
    /\ 2 * Cardinality(unique(dropna(x))) = Len(dropna(x))
    /\ metrics.column_type = "text"

\* ------------------------------------------------------------------------
\* Properties of the metric dispatch (specification Spec)
\* ------------------------------------------------------------------------

\* C11: calculate_column_distance chooses its metrics from the type of the
\* original column only: categorical gives the mean of (1 - V) and the Jaccard
\* distance, numerical the mean of the Wasserstein, Kolmogorov-Smirnov and
\* mean-shift distances, text the text similarity distance; and the type
\* reported in column_types is the type the column was scored with.
C11_DispatchOnOriginalType ==
    pc = "returned" =>
        /\ result.column_types = column_types
        /\ Len(column_types) = Len(column_distances)
        /\ \A i \in 1..Len(column_distances) :
              LET c == column_distances[i][1]
                  o == original_df.data[c]
                  a == anonymized_df.data[c]
                  t == column_types[i][2]
                  d == column_distances[i][2]
              IN  /\ column_types[i][1] = c
                  /\ t = detect_column_type(o)
                  /\ t = "categorical" =>
                        d = Mean(<<RSub(One, cramers_v(o, a)), jaccard_distance(o, a)>>)
                  /\ t = "numerical" =>
                        d = Mean(<<wasserstein_distance_normalized(o, a),
                                   kolmogorov_smirnov_distance(o, a),
                                   mean_shift_distance(o, a)>>)
                  /\ t = "text" => d = text_similarity_distance(o, a)

\* C11 witness: a result was returned for a column whose original holds no
\* value (categorical) and whose transformed values are text, and the
\* categorical metrics give a distance other than the text metric would.
C11_Witness ==
    /\ pc = "returned"
    /\ \E i \in 1..Len(column_distances) :
          LET c == column_distances[i][1]
          IN  /\ column_types[i][2] = "categorical"
              /\ detect_column_type(anonymized_df.data[c]) = "text"
              /\ column_distances[i][2] #
                    text_similarity_distance(original_df.data[c], anonymized_df.data[c])

\* ------------------------------------------------------------------------
\* Interpretation specification: _interpret_score applied to a score
\* ------------------------------------------------------------------------

MaxScore == 100
ScoreStep == 4

\* Scores from 1 to MaxScore in steps of 1 / ScoreStep.
ScoreInputs == {Rat(n, ScoreStep) : n \in ScoreStep..(MaxScore * ScoreStep)}

\* The words of the five strings _interpret_score returns.
InterpretationWords(s) ==
    CASE s = "Very Low Anonymization - Data is largely unchanged" ->
            <<"Very", "Low", "Anonymization", "-", "Data", "is", "largely", "unchanged">>
      [] s = "Low Anonymization - Some changes but patterns remain" ->
            <<"Low", "Anonymization", "-", "Some", "changes", "but", "patterns", "remain">>
      [] s = "Moderate Anonymization - Reasonable privacy protection" ->
            <<"Moderate", "Anonymization", "-", "Reasonable", "privacy", "protection">>
      [] s = "High Anonymization - Strong privacy protection" ->
            <<"High", "Anonymization", "-", "Strong", "privacy", "protection">>
      [] s = "Very High Anonymization - Maximum privacy protection" ->
            <<"Very", "High", "Anonymization", "-", "Maximum", "privacy", "protection">>
      [] OTHER -> <<>>

\* Python's `label in s` for a label made of whole words of s.
Contains(s, label) ==
    LET w == InterpretationWords(s)
    IN  \E k \in 0..(Len(w) - Len(label)) :
            \A i \in 1..Len(label) : w[k + i] = label[i]

\* self._interpret_score(anonify_score) of line 384, for a given score.
InterpInit ==
    /\ pc = "interpret"
    /\ global_score \in ScoreInputs
    /\ result = None
    /\ original_df = NoDf
    /\ anonymized_df = NoDf
    /\ column_weights = <<>>
    /\ column_scores = <<>>
    /\ column_distances = <<>>
    /\ column_types = <<>>
    /\ col_i = 0
    /\ x = <<>>
    /\ y = <<>>
    /\ metrics = None
    /\ calls = 0
    /\ PipelineIdle

Interpret ==
    /\ pc = "interpret"
    /\ result' = _interpret_score(global_score)
    /\ pc' = "interpreted"
    /\ UNCHANGED <<calls, pipeline, x, y, metrics, original_df, anonymized_df, column_weights,
                   column_scores, global_score, column_distances, column_types, col_i>>

InterpNext == Interpret

SpecInterp == InterpInit /\ [][InterpNext]_vars

\* ------------------------------------------------------------------------
\* Properties of the interpretation (specification SpecInterp)
\* ------------------------------------------------------------------------

\* The band label of an interpretation: its words before "Anonymization".
BandLabel(s) ==
    LET w == InterpretationWords(s)
        k == CHOOSE i \in 0..Len(w) : i = Len(w) \/ w[i + 1] = "Anonymization"
    IN  SubSeq(w, 1, k)

BandLabels == << <<"Very", "Low">>, <<"Low">>, <<"Moderate">>, <<"High">>, <<"Very", "High">> >>

BandRank(s) == CHOOSE r \in 0..5 : (r = 0 /\ \A q \in 1..5 : BandLabels[q] # BandLabel(s))
                                   \/ (r > 0 /\ BandLabels[r] = BandLabel(s))

C13_InterpretationLabels ==
    pc = "interpreted" =>
        /\ global_score = RInt(5) => Contains(result, <<"Very", "Low">>)
        /\ global_score = RInt(25) => Contains(result, <<"Low">>)
        /\ global_score = RInt(45) => Contains(result, <<"Medium">>)
        /\ global_score = RInt(65) => Contains(result, <<"High">>)
        /\ global_score = RInt(85) => Contains(result, <<"Very", "High">>)

\* ------------------------------------------------------------------------
\* Properties of the set-overlap distance (specification SpecMetric)
\* ------------------------------------------------------------------------

\* The distinct non-missing values of a column.
DistinctValues(col) == {col[i] : i \in {j \in 1..Len(col) : col[j].k # "null"}}

\* C14: jaccard_distance(x, y) is 1 - |X n Y| / |X u Y| for the sets X, Y of
\* distinct non-missing values; 0 when both are empty, 1 when they are disjoint
\* and not both empty, 0 when X = Y, and the same for (y, x).
C14_JaccardDistance ==
    pc = "measured" =>
        LET SX == DistinctValues(x)
            SY == DistinctValues(y)
            d == metrics.jaccard_distance
        IN  /\ (SX \cup SY) # {} =>
                  RMul(RSub(One, d), RInt(Cardinality(SX \cup SY))) =
                      RInt(Cardinality(SX \cap SY))
            /\ (SX = {} /\ SY = {}) => d = Zero
            /\ (SX \cap SY = {} /\ (SX \cup SY) # {}) => d = One
            /\ SX = SY => d = Zero
            /\ jaccard_distance(y, x) = d

\* C14 witness: two columns with missing cells that share one of their three
\* distinct values.
C14_Witness ==
    /\ pc = "measured"
    /\ Len(dropna(x)) < Len(x)
    /\ Len(dropna(y)) < Len(y)
    /\ Cardinality(DistinctValues(x) \cap DistinctValues(y)) = 1
    /\ Cardinality(DistinctValues(x) \cup DistinctValues(y)) = 3
    /\ metrics.jaccard_distance = Rat(2, 3)

\* ------------------------------------------------------------------------
\* Monotonicity of the aggregation (specification SpecAgg)
\* ------------------------------------------------------------------------

\* The column distances with the distance of the i-th column replaced by d.
WithDistance(distances, i, d) == [distances EXCEPT ![i] = <<distances[i][1], d>>]

\* C15: with positive weights, raising the distance of one column while the
\* other distances and the weights stay fixed never lowers global_distance,
\* anonify_score or the interpretation band.
C15_MonotoneInColumnDistance ==
    (pc = "returned" /\ PositiveWeights) =>
        \A i \in 1..Len(column_distances) : \A d \in AggDistances :
            RLe(column_distances[i][2], d) =>
                LET raised == ScoreResult(WithDistance(column_distances, i, d),
                                          column_types, column_weights)
                IN  /\ RLe(result.global_distance, raised.global_distance)
                    /\ RLe(result.anonify_score, raised.anonify_score)
                    /\ RLe(global_score,
                           anonify_score(WithDistance(column_distances, i, d), column_weights))
                    /\ BandRank(result.score_interpretation) <=
                           BandRank(raised.score_interpretation)

\* C15 witness: two columns of different weight were aggregated, and raising
\* the distance of the lighter one from 0.2 to 0.8 raises the score into a
\* higher band.
C15_Witness ==
    /\ pc = "returned"
    /\ PositiveWeights
    /\ Len(column_distances) = 2
    /\ column_distances[1][1] \in DOMAIN column_weights
    /\ column_distances[2][1] \notin DOMAIN column_weights
    /\ column_distances[2][2] = Rat(1, 5)
    /\ LET raised == ScoreResult(WithDistance(column_distances, 2, Rat(4, 5)),
                                 column_types, column_weights)
       IN  /\ RLt(result.anonify_score, raised.anonify_score)
           /\ BandRank(result.score_interpretation) <
                  BandRank(raised.score_interpretation)

\* ------------------------------------------------------------------------
\* quick_score, and a scorer instance used for several calls
\* ------------------------------------------------------------------------

\* Line 36: self.column_weights = column_weights or {}.
InitWeights(weights) == IF weights = None THEN <<>> ELSE weights

\* Lines 346-358: the two dicts the column loop builds, from column i on.
RECURSIVE ColumnLoop(_, _, _, _)
ColumnLoop(o, a, i, dicts) ==
    IF i > Len(o.columns) THEN dicts
    ELSE LET column == o.columns[i]
         IN  IF column \in SeqToSet(a.columns)
             THEN ColumnLoop(o, a, i + 1,
                      [distances |-> Append(dicts.distances,
                           <<column, calculate_column_distance(o.data[column], a.data[column])>>),
                       types |-> Append(dicts.types,
                           <<column, detect_column_type(o.data[column])>>)])
             ELSE ColumnLoop(o, a, i + 1, dicts)

\* quick_score: calculate_global_score on a scorer built for this one call.
quick_score(o, a, weights) ==
    IF shape(o) # shape(a)
    THEN ShapeError
    ELSE LET dicts == ColumnLoop(o, a, 1, [distances |-> <<>>, types |-> <<>>])
         IN  ScoreResult(dicts.distances, dicts.types, InitWeights(weights))

MaxCalls == 3

ReuseFrames == {f \in Frames : Len(f.columns) <= 1 /\ SeqToSet(f.columns) \subseteq {"a", "b"}}
ReuseWeightMaps == {w \in WeightMaps : DOMAIN w \subseteq {"a"}}

ReuseInit ==
    /\ pc = "called"
    /\ original_df \in ReuseFrames
    /\ anonymized_df \in ReuseFrames
    /\ column_weights \in ReuseWeightMaps
    /\ column_scores = <<>>
    /\ global_score = None
    /\ column_distances = <<>>
    /\ column_types = <<>>
    /\ col_i = 0
    /\ result = None
    /\ x = <<>>
    /\ y = <<>>
    /\ metrics = None
    /\ calls = 1
    /\ PipelineIdle

\* The next call of calculate_global_score on the same scorer: new arguments
\* and new locals, while the scorer keeps its fields.
CallAgain ==
    /\ pc \in {"returned", "raised"}
    /\ calls < MaxCalls
    /\ original_df' \in ReuseFrames
    /\ anonymized_df' \in ReuseFrames
    /\ column_distances' = <<>>
    /\ column_types' = <<>>
    /\ col_i' = 0
    /\ result' = None
    /\ calls' = calls + 1
    /\ pc' = "called"
    /\ UNCHANGED <<pipeline, x, y, metrics, column_weights, column_scores, global_score>>

ReuseNext == CheckShape \/ ScoreColumn \/ Aggregate \/ CallAgain

SpecReuse == ReuseInit /\ [][ReuseNext]_vars

\* C16: whatever calls were made on the scorer before, a finished call of
\* calculate_global_score has the outcome of quick_score (a scorer built for
\* the one call from the same weights) on the same two dataframes.
C16_ResultIndependentOfEarlierCalls ==
    pc \in {"returned", "raised"} =>
        result = quick_score(original_df, anonymized_df, column_weights)

\* C16 witness: the third call on a scorer returned a result for a scored
\* column, with a score other than 1.
C16_Witness ==
    /\ pc = "returned"
    /\ calls = MaxCalls
    /\ result.raised = "none"
    /\ result.total_columns = 1
    /\ result.anonify_score # One

\* ------------------------------------------------------------------------
\* Shape of the returned result (specification Spec)
\* ------------------------------------------------------------------------

\* v has at most four decimals.
HasFourDecimals(v) == RMul(v, RInt(10000))[2] = 1

\* C17: in every returned result column_scores and column_types have the same
\* keys, the columns of the original that occur in the anonymized dataframe in
\* the original's order; total_columns is their number; every type is
\* numerical, categorical or text; global_distance is in [0, 1] with four
\* decimals and each column score is the column's distance rounded to four
\* decimals.
C17_ResultShape ==
    pc = "returned" =>
        LET common == [i \in 1..Len(original_df.columns) |->
                          original_df.columns[i] \in SeqToSet(anonymized_df.columns)]
            expected == SelectSeq(original_df.columns,
                                  LAMBDA c : c \in SeqToSet(anonymized_df.columns))
        IN  /\ Keys(result.column_scores) = expected
            /\ Keys(result.column_types) = expected
            /\ result.total_columns = Cardinality({i \in DOMAIN common : common[i]})
            /\ \A i \in 1..Len(result.column_types) :
                  result.column_types[i][2] \in {"numerical", "categorical", "text"}
            /\ InUnit(result.global_distance)
            /\ HasFourDecimals(result.global_distance)
            /\ \A i \in 1..Len(result.column_scores) :
                  /\ HasFourDecimals(result.column_scores[i][2])
                  /\ InUnit(result.column_scores[i][2])
                  /\ RLe(Rat(-1, 20000),
                         RSub(result.column_scores[i][2], column_distances[i][2]))
                  /\ RLe(RSub(result.column_scores[i][2], column_distances[i][2]),
                         Rat(1, 20000))

\* C17 witness: of the two columns of the original one occurs in the
\* anonymized dataframe; its distance 1/3 is returned as 0.3333.
C17_Witness ==
    /\ pc = "returned"
    /\ Len(original_df.columns) = 2
    /\ result.total_columns = 1
    /\ Keys(result.column_scores) = <<original_df.columns[2]>>
    /\ column_distances[1][2] = Rat(1, 3)
    /\ result.column_scores[1][2] = Rat(3333, 10000)

\* ------------------------------------------------------------------------
\* Column transformations (modules/)
\* ------------------------------------------------------------------------

\* str(x) of a cell, as hash_column takes it: None prints as "None", NaN (a
\* missing cell of a float64 column) as "nan".
PyStr(v, isFloat) ==
    IF IsNull(v) THEN (IF isFloat THEN <<"n", "a", "n">> ELSE <<"N", "o", "n", "e">>)
    ELSE StrOf(v, isFloat)

\* hash_column: every cell, missing ones included, becomes the hexdigest of
\* str(x) + salt. The digest is kept as a non-numeric string that is different
\* for different inputs, not as its 64 hexadecimal characters.
hash_column(series) ==
    [i \in 1..Len(series) |-> Str(<<"#">> \o PyStr(series[i], IsFloatCol(series)))]

\* fake_column: every cell, missing ones included, becomes what the faker
\* method returns for it.
FakeValues == {Str(<<"f">>), Str(<<"g">>)}
fake_column(series) == [1..Len(series) -> FakeValues]

\* randomize_column: every cell becomes one of the configured elements.
RandomElements == {Num(1), Num(2)}
randomize_column(series) == [1..Len(series) -> RandomElements]

\* obfuscate_column: a missing cell stays missing; any other cell is parsed as a
\* date, shifted by a random number of days and formatted as %Y-%m-%d. The
\* number 1 is the timestamp 1970-01-01; the strings of the model are no dates.
ObfuscatedDates ==
    {Str(<<"1", "9", "7", "0", "-", "0", "1", "-", "0", "1">>),
     Str(<<"1", "9", "6", "9", "-", "1", "2", "-", "3", "1">>)}
IsDate(v) == IsNum(v)
ObfuscateFails(series) == \E i \in 1..Len(series) : ~IsNull(series[i]) /\ ~IsDate(series[i])
obfuscate_column(series) ==
    {c \in [1..Len(series) -> ObfuscatedDates \cup {Null}] :
        \A i \in 1..Len(series) : IsNull(c[i]) <=> IsNull(series[i])}

\* Variant: the column is removed and added again, which puts it last.
SetColumn_moving_last(df, column, series) ==
    [columns |-> Append(SelectSeq(df.columns, LAMBDA c : c # column), column),
     nrows |-> df.nrows,
     data |-> [df.data EXCEPT ![column] = series]]

\* df[column] = series for a column the DataFrame has: the column keeps its
\* place.
SetColumn(df, column, series) == [df EXCEPT !.data[column] = series]

ValueError(where, column) == [raised |-> "ValueError", where |-> where, column |-> column]

\* Variant: the copy is taken from the DataFrame as the caller passed it, which
\* loses what was assigned to other columns before.
null_column_from_original(df, column) ==
    IF column \in SeqToSet(df.columns)
    THEN [raised |-> "none", df |-> SetColumn(given, column, [i \in 1..df.nrows |-> Null])]
    ELSE ValueError("null_column", column)

\* Variant: the column is set to the empty string instead of None.
null_column_blanking(df, column) ==
    IF column \in SeqToSet(df.columns)
    THEN [raised |-> "none", df |-> SetColumn(df, column, [i \in 1..df.nrows |-> Str(<<>>)])]
    ELSE ValueError("null_column", column)

\* null_column: a copy of the DataFrame with the column set to None, or
\* ValueError when the DataFrame has no such column.
null_column(df, column) ==
    IF column \in SeqToSet(df.columns)
    THEN [raised |-> "none", df |-> SetColumn(df, column, [i \in 1..df.nrows |-> Null])]
    ELSE ValueError("null_column", column)

\* ------------------------------------------------------------------------
\* Pipeline specification: deidentify, preprocess and null_column as a caller
\* uses them
\* ------------------------------------------------------------------------

MaxPipeRows == 1
MaxPipeCols == 2
MaxActions == 2

PipeNames == {"a", "b"}
MissingName == "z"

\* The columns of the DataFrame: "a", then "b".
PipeColumnLists == {cs \in {<<>>, <<"a">>, <<"a", "b">>} : Len(cs) <= MaxPipeCols}

PipeFrames ==
    UNION {{[columns |-> cs, nrows |-> n, data |-> d] :
               d \in [SeqToSet(cs) -> [1..n -> DfValues]]} :
           <<cs, n>> \in PipeColumnLists \X (0..MaxPipeRows)}

\* The six methods preprocess knows, and one it does not.
ActionNames ==
    {"hash", "fake", "null_column", "randomize", "obfuscate", "do_not_change", "unknown"}

\* The actions of one column: a dict, so no action occurs twice.
ActionLists ==
    {al \in UNION {[1..len -> ActionNames] : len \in 0..MaxActions} :
        \A i, j \in 1..Len(al) : al[i] = al[j] => i = j}

ConfigColumnLists ==
    {cs \in UNION {[1..len -> PipeNames \cup {MissingName}] : len \in 0..MaxPipeCols} :
        \A i, j \in 1..Len(cs) : cs[i] = cs[j] => i = j}

ConfigEntries(cs, longest) ==
    {[i \in 1..Len(cs) |-> <<cs[i], al[i]>>] :
        al \in {a \in [1..Len(cs) -> {l \in ActionLists : Len(l) <= longest}] :
                  ISumFn([i \in 1..Len(cs) |-> Len(a[i])]) <= MaxActions}}

\* {'columns': {column: {action: params}}}, and the direct format
\* {column: {'method': method, ...}} (an entry without 'method' has no action).
PipeConfigs ==
    UNION {{[format |-> "wrapped", columns |-> e] : e \in ConfigEntries(cs, MaxActions)}
             \cup {[format |-> "direct", columns |-> e] : e \in ConfigEntries(cs, 1)} :
           cs \in ConfigColumnLists}

\* main.py lines 71-108: the direct format is converted, entries without a
\* 'method' are left out; a config with a 'columns' key is taken as it is.
FormattedConfig(cfg) ==
    IF cfg.format = "wrapped" THEN cfg.columns
    ELSE SelectSeq(cfg.columns, LAMBDA e : Len(e[2]) = 1)

Arguments(entry, return_scores, generate_report, column) ==
    [entry |-> entry, return_scores |-> return_scores,
     generate_report |-> generate_report, column |-> column]

DataFrameResult(df) == [raised |-> "none", type |-> "DataFrame", df |-> df]

PipeInit ==
    /\ pc = "api"
    /\ dataframe \in PipeFrames
    /\ given = dataframe
    /\ yaml_config \in PipeConfigs
    /\ args = None
    /\ dataframe_copy = NoDf
    /\ pp_dataframe = NoDf
    /\ pp_obj = "none"
    /\ config = None
    /\ cfg_i = 0
    /\ act_i = 0
    /\ result = None
    /\ x = <<>>
    /\ y = <<>>
    /\ metrics = None
    /\ calls = 0
    /\ ScorerIdle

\* Variant: preprocess is called on the caller's DataFrame, not on a copy.
Deidentify_without_copy ==
    /\ pc = "api"
    /\ args' = Arguments("deidentify", FALSE, FALSE, "")
    /\ config' = FormattedConfig(yaml_config)
    /\ original_df' = dataframe
    /\ dataframe_copy' = dataframe
    /\ pp_dataframe' = dataframe
    /\ pp_obj' = "caller"
    /\ cfg_i' = 1
    /\ act_i' = 0
    /\ pc' = "preprocess"
    /\ UNCHANGED <<dataframe, given, yaml_config, anonymized_df, scorer, result>>

\* deidentify, lines 58-118: the config is brought into the wrapped format, the
\* DataFrame is copied twice and preprocess is called on the second copy.
Deidentify ==
    /\ pc = "api"
    /\ args' = Arguments("deidentify", FALSE, FALSE, "")
    /\ config' = FormattedConfig(yaml_config)
    /\ original_df' = dataframe
    /\ dataframe_copy' = dataframe
    /\ pp_dataframe' = dataframe
    /\ pp_obj' = "copy"
    /\ cfg_i' = 1
    /\ act_i' = 0
    /\ pc' = "preprocess"
    /\ UNCHANGED <<dataframe, given, yaml_config, anonymized_df, scorer, result>>

\* preprocess called by the caller on its own DataFrame; lines 5-6.
PreprocessCall ==
    /\ pc = "api"
    /\ args' = Arguments("preprocess", FALSE, FALSE, "")
    /\ IF yaml_config.format = "wrapped"
       THEN /\ config' = yaml_config.columns
            /\ pp_dataframe' = dataframe
            /\ pp_obj' = "caller"
            /\ cfg_i' = 1
            /\ act_i' = 0
            /\ pc' = "preprocess"
            /\ UNCHANGED result
       ELSE /\ result' = ValueError("columns", "")
            /\ pc' = "raised"
            /\ UNCHANGED <<config, pp_dataframe, pp_obj, cfg_i, act_i>>
    /\ UNCHANGED <<dataframe, given, yaml_config, dataframe_copy, scoring>>

\* null_column called by the caller on its own DataFrame.
NullColumnCall ==
    /\ pc = "api"
    /\ \E column \in PipeNames \cup {MissingName} :
          /\ args' = Arguments("null_column", FALSE, FALSE, column)
          /\ LET r == null_column(dataframe, column)
             IN  IF r.raised = "none"
                 THEN result' = DataFrameResult(r.df) /\ pc' = "returned"
                 ELSE result' = r /\ pc' = "raised"
    /\ UNCHANGED <<dataframe, given, yaml_config, dataframe_copy, pp_dataframe,
                   pp_obj, config, cfg_i, act_i, scoring>>

\* dataframe[column] = series inside preprocess: the object the name is bound
\* to changes, and with it the caller's DataFrame or deidentify's copy when it
\* is that object.
AssignColumn(column, series) ==
    LET df == SetColumn(pp_dataframe, column, series)
    IN  /\ pp_dataframe' = df
        /\ dataframe' = IF pp_obj = "caller" THEN df ELSE dataframe
        /\ dataframe_copy' = IF pp_obj = "copy" THEN df ELSE dataframe_copy
        /\ UNCHANGED pp_obj

\* An exception leaves preprocess, and deidentify when it was the caller.
RaiseFromPreprocess(error) ==
    /\ result' = error
    /\ pc' = "raised"
    /\ UNCHANGED <<dataframe, dataframe_copy, pp_dataframe, pp_obj, cfg_i, act_i>>

\* Variant: an entry for a column the DataFrame does not have is skipped.
PreprocessColumn_skipping_missing ==
    /\ pc = "preprocess"
    /\ cfg_i <= Len(config)
    /\ act_i = 0
    /\ LET column == config[cfg_i][1]
           actions == config[cfg_i][2]
       IN  /\ IF column \notin SeqToSet(pp_dataframe.columns) \/ Len(actions) = 0
              THEN cfg_i' = cfg_i + 1 /\ act_i' = 0
              ELSE cfg_i' = cfg_i /\ act_i' = 1
           /\ UNCHANGED <<pc, result, dataframe, dataframe_copy, pp_dataframe, pp_obj>>
    /\ UNCHANGED <<given, yaml_config, args, config, scoring>>

\* Lines 11-14: the next column of config['columns'] and the check that the
\* DataFrame has it.
PreprocessColumn ==
    /\ pc = "preprocess"
    /\ cfg_i <= Len(config)
    /\ act_i = 0
    /\ LET column == config[cfg_i][1]
           actions == config[cfg_i][2]
       IN  IF column \notin SeqToSet(pp_dataframe.columns)
           THEN RaiseFromPreprocess(ValueError("column", column))
           ELSE /\ IF Len(actions) = 0
                   THEN cfg_i' = cfg_i + 1 /\ act_i' = 0
                   ELSE cfg_i' = cfg_i /\ act_i' = 1
                /\ UNCHANGED <<pc, result, dataframe, dataframe_copy, pp_dataframe, pp_obj>>
    /\ UNCHANGED <<given, yaml_config, args, config, scoring>>

\* Variant: null_column as in the other copy of nuller.py, which sets the
\* column on the DataFrame it is given.
ApplyNullColumn_in_place(column) ==
    AssignColumn(column, [i \in 1..pp_dataframe.nrows |-> Null])

\* Line 27: dataframe = null_column(dataframe, column); the name is bound to the
\* copy null_column returns.
ApplyNullColumn(column) ==
    /\ pp_dataframe' = null_column(pp_dataframe, column).df
    /\ pp_obj' = "new"
    /\ UNCHANGED <<dataframe, dataframe_copy>>

\* Lines 16-33: one action of the column.
PreprocessAction ==
    /\ pc = "preprocess"
    /\ cfg_i <= Len(config)
    /\ act_i >= 1
    /\ LET column == config[cfg_i][1]
           actions == config[cfg_i][2]
           action == actions[act_i]
           series == pp_dataframe.data[column]
           Advance == /\ IF act_i = Len(actions)
                         THEN cfg_i' = cfg_i + 1 /\ act_i' = 0
                         ELSE cfg_i' = cfg_i /\ act_i' = act_i + 1
                      /\ UNCHANGED <<pc, result>>
       IN  CASE action = "unknown" -> RaiseFromPreprocess(ValueError("method", column))
             [] action = "hash" -> AssignColumn(column, hash_column(series)) /\ Advance
             [] action = "fake" ->
                   /\ \E faked \in fake_column(series) : AssignColumn(column, faked)
                   /\ Advance
             [] action = "null_column" -> ApplyNullColumn(column) /\ Advance
             [] action = "randomize" ->
                   /\ \E randomized \in randomize_column(series) :
                          AssignColumn(column, randomized)
                   /\ Advance
             [] action = "obfuscate" ->
                   IF ObfuscateFails(series)
                   THEN RaiseFromPreprocess(ValueError("obfuscate", column))
                   ELSE /\ \E obfuscated \in obfuscate_column(series) :
                               AssignColumn(column, obfuscated)
                        /\ Advance
             [] action = "do_not_change" ->
                   Advance /\ UNCHANGED <<dataframe, dataframe_copy, pp_dataframe, pp_obj>>
    /\ UNCHANGED <<given, yaml_config, args, config, scoring>>

\* Line 34, and line 118 of main.py when deidentify made the call.
PreprocessReturn ==
    /\ pc = "preprocess"
    /\ cfg_i > Len(config)
    /\ IF args.entry = "deidentify"
       THEN /\ anonymized_df' = pp_dataframe
            /\ pc' = "preprocessed"
            /\ UNCHANGED result
       ELSE /\ result' = DataFrameResult(pp_dataframe)
            /\ pc' = "returned"
            /\ UNCHANGED anonymized_df
    /\ UNCHANGED <<pipeline, original_df, scorer>>

\* The dict deidentify returns: its keys in insertion order and their values.
DictResult(keys, df, scores, cfg, report_path) ==
    [raised |-> "none", type |-> "dict", keys |-> keys, anonymized_data |-> df,
     scores |-> scores, config |-> cfg, report_path |-> report_path]

\* Variant: the pair (anonymized_data, scores) with the score under
\* 'overall_score'.
DeidentifyResult_pair(scores, return_scores, scored, reported) ==
    IF return_scores /\ scored
    THEN [raised |-> "none", type |-> "tuple",
          items |-> <<anonymized_df,
                      [overall_score |-> scores.anonify_score,
                       column_scores |-> scores.column_scores]>>]
    ELSE DataFrameResult(anonymized_df)

\* Lines 121-160: what deidentify returns, given the scores, whether they were
\* calculated and whether a report was written.
DeidentifyResult(scores, return_scores, scored, reported) ==
    IF return_scores /\ scored
    THEN IF reported
         THEN DictResult(<<"anonymized_data", "scores", "config", "report_path">>,
                         anonymized_df, scores, config, "report.html")
         ELSE DictResult(<<"anonymized_data", "scores", "config">>,
                         anonymized_df, scores, config, None)
    ELSE IF reported
         THEN DictResult(<<"anonymized_data", "report_path">>,
                         anonymized_df, None, None, "report.html")
         ELSE DataFrameResult(anonymized_df)

\* Lines 121-160. return_scores and generate_report are read here for the
\* first time, so the caller's choice of them is drawn here. SCORING_AVAILABLE
\* and REPORTING_AVAILABLE say whether the analysis modules could be imported;
\* writing the report can fail, which is logged and not raised.
DeidentifyFinish ==
    /\ pc = "preprocessed"
    /\ LET scores == quick_score(original_df, anonymized_df, None)
       IN  \E return_scores \in BOOLEAN, generate_report \in BOOLEAN,
              SCORING_AVAILABLE \in BOOLEAN, REPORTING_AVAILABLE \in BOOLEAN,
              report_written \in BOOLEAN :
              LET scored == (return_scores \/ generate_report) /\ SCORING_AVAILABLE
                  reported == generate_report /\ REPORTING_AVAILABLE /\ report_written
              IN  /\ args' = Arguments("deidentify", return_scores, generate_report, "")
                  /\ IF scored /\ scores.raised # "none"
                     THEN result' = scores /\ pc' = "raised"
                     ELSE /\ result' = DeidentifyResult(scores, return_scores, scored, reported)
                          /\ pc' = "returned"
    /\ UNCHANGED <<dataframe, given, yaml_config, dataframe_copy, pp_dataframe, pp_obj,
                   config, cfg_i, act_i, scoring>>

PipeNext ==
    \/ Deidentify
    \/ PreprocessCall
    \/ NullColumnCall
    \/ PreprocessColumn
    \/ PreprocessAction
    \/ PreprocessReturn
    \/ DeidentifyFinish

SpecPipeline == PipeInit /\ [][PipeNext]_vars

\* ------------------------------------------------------------------------
\* Claims about deidentify and null_column
\* ------------------------------------------------------------------------

DeidentifyReturned == pc = "returned" /\ args.entry = "deidentify"

\* The DataFrame in what deidentify returned.
ReturnedFrame == IF result.type = "dict" THEN result.anonymized_data ELSE result.df

\* The actions the caller's config lists for the column, <<>> when it does not
\* name the column.
ConfiguredActions(column) ==
    IF HasKey(yaml_config.columns, column)
    THEN yaml_config.columns[CHOOSE i \in 1..Len(yaml_config.columns) :
                                 yaml_config.columns[i][1] = column][2]
    ELSE <<>>

\* C18: deidentify called with return_scores=True returns a pair (anonymized
\* DataFrame, scores) that unpacks into two values, and scores has the keys
\* 'overall_score', a number in [1, 100], and 'column_scores'.
C18_ReturnsPairWithOverallScore ==
    (DeidentifyReturned /\ args.return_scores) =>
        /\ result.type = "tuple"
        /\ Len(result.items) = 2
        /\ result.items[1] = anonymized_df
        /\ {"overall_score", "column_scores"} \subseteq DOMAIN result.items[2]
        /\ RLe(RInt(1), result.items[2].overall_score)
        /\ RLe(result.items[2].overall_score, RInt(100))

\* C19: when deidentify returns, its DataFrame has as many rows as the input
\* and the input's columns in the input's order, and every column the config
\* does not name, or for which it lists do_not_change alone, holds the input's
\* values.
C19_FrameOfDeidentify ==
    DeidentifyReturned =>
        /\ ReturnedFrame.nrows = given.nrows
        /\ ReturnedFrame.columns = given.columns
        /\ \A c \in SeqToSet(given.columns) :
              (~HasKey(yaml_config.columns, c) \/ ConfiguredActions(c) = <<"do_not_change">>)
                  => ReturnedFrame.data[c] = given.data[c]

\* Column "a" was hashed, column "b" is configured with do_not_change and kept
\* its value.
C19_Witness ==
    /\ DeidentifyReturned
    /\ given.columns = <<"a", "b">>
    /\ given.nrows = 1
    /\ yaml_config.columns = << <<"a", <<"hash">> >>, <<"b", <<"do_not_change">> >> >>
    /\ ~IsNull(given.data["b"][1])
    /\ ReturnedFrame.data["a"] # given.data["a"]
    /\ ReturnedFrame.data["b"] = given.data["b"]

AllNull(series) == \A i \in 1..Len(series) : IsNull(series[i])

\* null_column called on a DataFrame without the column raises ValueError.
NullColumnRaisesForMissingColumn ==
    (pc \in {"returned", "raised"} /\ args.entry = "null_column"
        /\ args.column \notin SeqToSet(given.columns)) =>
        /\ pc = "raised"
        /\ result = ValueError("null_column", args.column)

\* C20 as stated: after deidentify with null_column among the actions of a
\* column, the column is present and all its values are null; null_column raises
\* ValueError for a column the DataFrame does not have.
C20_NullColumnLeavesNull ==
    /\ DeidentifyReturned =>
          \A c \in SeqToSet(Keys(yaml_config.columns)) :
              (\E k \in 1..Len(ConfiguredActions(c)) : ConfiguredActions(c)[k] = "null_column")
                  => /\ c \in SeqToSet(ReturnedFrame.columns)
                     /\ AllNull(ReturnedFrame.data[c])
    /\ NullColumnRaisesForMissingColumn

\* The actions that put a value in a cell that is null.
FillsNulls == {"hash", "fake", "randomize"}

\* C20, amended: after deidentify with null_column among the actions of a
\* column and no hash, fake or randomize listed after it, the column is present
\* and all its values are null; null_column raises ValueError for a column the
\* DataFrame does not have.
C20_NullColumnLastLeavesNull ==
    /\ DeidentifyReturned =>
          \A c \in SeqToSet(Keys(yaml_config.columns)) :
              (\E k \in 1..Len(ConfiguredActions(c)) :
                  /\ ConfiguredActions(c)[k] = "null_column"
                  /\ \A l \in (k + 1)..Len(ConfiguredActions(c)) :
                        ConfiguredActions(c)[l] \notin FillsNulls)
                  => /\ c \in SeqToSet(ReturnedFrame.columns)
                     /\ AllNull(ReturnedFrame.data[c])
    /\ NullColumnRaisesForMissingColumn

\* Column "a" held a value, was hashed and then nulled: it is there and null.
C20_Witness ==
    /\ DeidentifyReturned
    /\ given.columns = <<"a">>
    /\ given.nrows = 1
    /\ ~IsNull(given.data["a"][1])
    /\ ConfiguredActions("a") = <<"hash", "null_column">>
    /\ ReturnedFrame.columns = <<"a">>
    /\ AllNull(ReturnedFrame.data["a"])


\* ------------------------------------------------------------------------
\* Claims about the errors of preprocess
\* ------------------------------------------------------------------------

PreprocessFinished == pc \in {"returned", "raised"} /\ args.entry = "preprocess"
DeidentifyFinished == pc \in {"returned", "raised"} /\ args.entry = "deidentify"

\* The positions of the entries of cfg whose column the caller's DataFrame does
\* not have.
MissingEntries(cfg) == {i \in 1..Len(cfg) : cfg[i][1] \notin SeqToSet(given.columns)}

HasUnknownAction(cfg) ==
    \E i \in 1..Len(cfg) : \E k \in 1..Len(cfg[i][2]) : cfg[i][2][k] = "unknown"

\* The messages of lines 14 and 19 of preprocessor.py name the column; the
\* message of line 6 and a date-parsing error do not.
MentionsColumn(error, column) == error.where \in {"column", "method"} /\ error.column = column

\* What C21 says of preprocess: ValueError without 'columns', for a missing
\* column and for an unknown action.
PreprocessRaisesValueError ==
    /\ (PreprocessFinished /\ yaml_config.format = "direct") =>
          pc = "raised" /\ result = ValueError("columns", "")
    /\ (PreprocessFinished /\ yaml_config.format = "wrapped"
          /\ (MissingEntries(yaml_config.columns) # {} \/ HasUnknownAction(yaml_config.columns)))
          => pc = "raised" /\ result.raised = "ValueError"

EarlierEntriesPass(cfg, i) ==
    \A j \in 1..(i - 1) : \A k \in 1..Len(cfg[j][2]) : cfg[j][2][k] \notin {"unknown", "obfuscate"}

MaxTail == 2

\* A column: a pattern of two values repeated until it has SampleCap cells, or
\* no such cells, followed by a tail of up to MaxTail cells.
Tails(V) == UNION {[1..len -> V] : len \in 0..MaxTail}
SampleColumns(V) ==
    {Repeat(p, k) \o t : <<p, k, t>> \in [1..2 -> V] \X {0, SampleCap \div 2} \X Tails(V \cup {Null})}

TextMetrics(a, b) ==
    [unique_replacement_dist |-> unique_replacement_dist(a, b),
     string_similarity_dist |-> string_similarity_dist(a, b),
     text_similarity_distance |-> text_similarity_distance(a, b)]

SampleInit ==
    /\ pc = "column"
    /\ x \in SampleColumns({A, B})
    /\ y \in SampleColumns({A, C})
    /\ metrics = None
    /\ ScorerIdle
    /\ PipelineIdle

\* text_similarity_distance(x, y)
MeasureText ==
    /\ pc = "column"
    /\ metrics' = TextMetrics(x, y)
    /\ result' = text_similarity_distance(x, y)
    /\ pc' = "measured"
    /\ UNCHANGED <<calls, pipeline, x, y, original_df, anonymized_df, column_weights,
                   column_scores, global_score, column_distances, column_types, col_i>>

\* The column with cell i set to v.
WithCell(col, i, v) == [col EXCEPT ![i] = v]

\* One cell after the first SampleCap cells of a column without missing cells
\* among them is given another value, the sets of distinct values staying as
\* they are, and the distance is calculated again.
ChangeBeyondSample ==
    /\ pc = "measured"
    /\ \E i \in (SampleCap + 1)..(SampleCap + MaxTail), v \in {A, B, C}, inX \in BOOLEAN :
          LET col == IF inX THEN x ELSE y
              new == WithCell(col, i, v)
          IN  /\ i <= Len(col)
              /\ Len(dropna(SubSeq(col, 1, SampleCap))) = SampleCap
              /\ ~IsNull(col[i])
              /\ col[i] # v
              /\ SeqToSet(dropna(new)) = SeqToSet(dropna(col))
              /\ x' = IF inX THEN new ELSE x
              /\ y' = IF inX THEN y ELSE new
    /\ result' = text_similarity_distance(x', y')
    /\ pc' = "changed"
    /\ UNCHANGED <<calls, pipeline, metrics, original_df, anonymized_df, column_weights,
                   column_scores, global_score, column_distances, column_types, col_i>>

SampleNext == MeasureText \/ ChangeBeyondSample

SpecSample == SampleInit /\ [][SampleNext]_vars


\* The non-missing values of a column as strings, and the ratios of the first
\* n pairs of them.
NonMissingStrings(col) == [i \in 1..Len(dropna(col)) |-> dropna(col)[i].s]
PairRatios(a, b, n) == [i \in 1..n |-> SequenceMatcherRatio(a[i], b[i])]

\* C22: text_similarity_distance is the mean of (a) 1 - shared distinct values
\* / distinct values of the original and (b) 1 - the average similarity ratio
\* of the first min(len(x), len(y), 100) pairs of non-missing values, (b) being
\* 1 when either column has no non-missing value; a change of a value beyond
\* the 100th pair that keeps the sets of distinct values leaves the result as
\* it was.
C22_TextSimilarityDistance ==
    /\ pc \in {"measured", "changed"} =>
          metrics.text_similarity_distance =
              Mean(<<metrics.unique_replacement_dist, metrics.string_similarity_dist>>)
    /\ pc = "measured" =>
          LET xs == NonMissingStrings(x)
              ys == NonMissingStrings(y)
              n == Min2(Min2(Len(xs), Len(ys)), 100)
          IN  /\ result = metrics.text_similarity_distance
              /\ xs # <<>> =>
                    metrics.unique_replacement_dist =
                        RSub(One, Rat(Cardinality(SeqToSet(xs) \cap SeqToSet(ys)),
                                      Cardinality(SeqToSet(xs))))
              /\ metrics.string_similarity_dist =
                    IF xs = <<>> \/ ys = <<>> THEN One
                    ELSE RSub(One, RDiv(RSumFn(PairRatios(xs, ys, n)), RInt(n)))
    /\ pc = "changed" => result = metrics.text_similarity_distance

\* Both columns have 101 values; the last value of the original went from 'a'
\* to 'b', which its pair in the transformed column is not, and the distance
\* stayed between 0 and 1.
C22_Witness ==
    /\ pc = "changed"
    /\ Len(dropna(x)) = SampleCap + 1
    /\ Len(dropna(y)) = SampleCap + 1
    /\ x[SampleCap + 1] = B
    /\ y[SampleCap + 1] = A
    /\ RLt(Zero, result)
    /\ RLt(result, One)


\* ------------------------------------------------------------------------
\* Degenerate inputs of the numerical metrics (specification SpecMetric)
\* ------------------------------------------------------------------------

\* Both columns have values and all of them are numbers.
BothNumeric == ~AstypeFloatFails(x, y) /\ Len(Nums(x)) > 0 /\ Len(Nums(y)) > 0

\* A sample without spread: its range and its standard deviation are zero.
IsConstant(s) == \A i, j \in 1..Len(s) : s[i] = s[j]

\* C23: when the range of the original is zero the distribution-shift distance
\* is 0 for a Wasserstein distance of zero and 1 otherwise, and when its
\* standard deviation is zero the central-tendency distance is 0 for equal means
\* and 1 otherwise; in all other cases the metric is the raw difference divided
\* by the denominator, capped at 1.
C23_ZeroDenominatorRule ==
    (pc = "measured" /\ BothNumeric) =>
        LET u == Nums(x)
            v == Nums(y)
            wd == wasserstein_distance(u, v)
            mean_diff == RSub(SMean(u), SMean(v))
        IN  /\ metrics.wasserstein_distance_normalized =
                  IF IsConstant(u) THEN (IF wd = Zero THEN Zero ELSE One)
                  ELSE RMin(One, RDiv(wd, RInt(SeqMax(u) - SeqMin(u))))
            /\ metrics.mean_shift_distance =
                  IF IsConstant(u) THEN (IF mean_diff = Zero THEN Zero ELSE One)
                  ELSE ClampedSqrt(RDiv(RMul(mean_diff, mean_diff), SVar(u)))


\* C24: for a numerical original and a transformed column without non-missing
\* values, or with values that are no numbers, the three numerical metrics are
\* the ones applied, each of them is 1, and the column distance is 1.
C24_NumericalTypeDrift ==
    (pc = "measured" /\ metrics.column_type = "numerical"
        /\ (Len(dropna(y)) = 0 \/ ~CoercesToNumber(dropna(y)))) =>
        /\ metrics.wasserstein_distance_normalized = One
        /\ metrics.kolmogorov_smirnov_distance = One
        /\ metrics.mean_shift_distance = One
        /\ metrics.distance = Mean(<<metrics.wasserstein_distance_normalized,
                                     metrics.kolmogorov_smirnov_distance,
                                     metrics.mean_shift_distance>>)
        /\ metrics.distance = One

\* A numerical original with two different values against a column of strings
\* with a missing cell.
C24_Witness ==
    /\ pc = "measured"
    /\ metrics.column_type = "numerical"
    /\ unique(x) = {Num(1), Num(2)}
    /\ unique(y) = {A, Null}
    /\ metrics.distance = One


\* ------------------------------------------------------------------------
\* Band-limit specification: lines 360-385 for global distances next to the
\* limits of the interpretation bands
\* ------------------------------------------------------------------------

BandWindow == 15

\* 1 + 99 * k / 10000 is within 0.15 of a band limit for these k.
BandLimitWeights ==
    UNION {(m - BandWindow)..(m + BandWindow) : m \in {1919, 3939, 5959, 7979}}

\* Column "a" came out unchanged, column "b" fully changed, and the caller's
\* weights are 10000 - k and k: the global distance is k / 10000.
BandInit ==
    /\ pc = "aggregate"
    /\ column_distances = << <<"a", Zero>>, <<"b", One>> >>
    /\ column_types = << <<"a", "numerical">>, <<"b", "numerical">> >>
    /\ \E k \in BandLimitWeights : column_weights = [c \in {"a", "b"} |->
                                                        IF c = "a" THEN 10000 - k ELSE k]
    /\ column_scores = <<>>
    /\ global_score = None
    /\ original_df = NoDf
    /\ anonymized_df = NoDf
    /\ col_i = 0
    /\ result = None
    /\ x = <<>>
    /\ y = <<>>
    /\ metrics = None
    /\ calls = 0
    /\ PipelineIdle

SpecBand == BandInit /\ [][AggNext]_vars

\* C25: in every result of calculate_global_score, score_interpretation is the
\* band of the reported anonify_score, the score rounded to two decimals.
C25_InterpretationOfReportedScore ==
    pc = "returned" => result.score_interpretation = _interpret_score(result.anonify_score)


\* ------------------------------------------------------------------------
\* Report specification: the scorer's and the reporter's interpretation of
\* one score
\* ------------------------------------------------------------------------

\* AnonymizationReporter._get_score_interpretation
_get_score_interpretation(score) ==
    IF RLe(RInt(81), score) THEN "Very High Anonymization - Maximum privacy protection"
    ELSE IF RLe(RInt(61), score) THEN "High Anonymization - Strong privacy protection"
    ELSE IF RLe(RInt(41), score) THEN "Medium Anonymization - Moderate privacy protection"
    ELSE IF RLe(RInt(21), score) THEN "Low Anonymization - Limited privacy protection"
    ELSE "Very Low Anonymization - Minimal privacy protection"

\* The report's interpretation of the score the scorer interpreted.
ReportInterpretation ==
    /\ pc = "interpreted"
    /\ metrics' = _get_score_interpretation(global_score)
    /\ pc' = "reported"
    /\ UNCHANGED <<calls, pipeline, x, y, result, original_df, anonymized_df, column_weights,
                   column_scores, global_score, column_distances, column_types, col_i>>

ReportNext == Interpret \/ ReportInterpretation

SpecReport == InterpInit /\ [][ReportNext]_vars

\* The band, 1 to 5, of an interpretation of the reporter.
ReporterBandRank(s) ==
    CASE s = "Very Low Anonymization - Minimal privacy protection" -> 1
      [] s = "Low Anonymization - Limited privacy protection" -> 2
      [] s = "Medium Anonymization - Moderate privacy protection" -> 3
      [] s = "High Anonymization - Strong privacy protection" -> 4
      [] s = "Very High Anonymization - Maximum privacy protection" -> 5
      [] OTHER -> 0

\* C26: for every score in [1, 100] the reporter's interpretation is in the
\* same of the five bands as the scorer's.
C26_ReporterAgreesWithScorer ==
    pc = "reported" => ReporterBandRank(metrics) = BandRank(result)


\* ------------------------------------------------------------------------
\* Claims about the effects of deidentify and preprocess on their DataFrame
\* ------------------------------------------------------------------------

\* C27: during and after a call of deidentify, also one that raises part-way
\* through the transformations, the caller's DataFrame holds the values it
\* was given with.
C27_CallerFrameUntouched ==
    (pc # "api" /\ args.entry = "deidentify") => dataframe = given

\* deidentify hashed column "a" of its copy and then raised for the unknown
\* action; the caller's column is as it was.
C27_Witness ==
    /\ pc = "raised"
    /\ args.entry = "deidentify"
    /\ given.columns = <<"a">>
    /\ given.nrows = 1
    /\ yaml_config.format = "wrapped"
    /\ yaml_config.columns = << <<"a", <<"hash", "unknown">> >> >>
    /\ result = ValueError("method", "a")
    /\ dataframe_copy.data["a"] # given.data["a"]
    /\ dataframe.data["a"] = given.data["a"]

\* C28: when preprocess raises ValueError for a missing column or an unknown
\* method, no column of the DataFrame it was given has been transformed.
C28_ValidationAllOrNothing ==
    (PreprocessFinished /\ pc = "raised" /\ result.where \in {"column", "method"})
        => dataframe = given


\* What one action can make of a column.
ApplyOne(series, action) ==
    CASE action = "hash" -> {hash_column(series)}
      [] action = "fake" -> fake_column(series)
      [] action = "null_column" -> {[i \in 1..Len(series) |-> Null]}
      [] action = "randomize" -> randomize_column(series)
      [] action = "obfuscate" ->
            IF ObfuscateFails(series) THEN {} ELSE obfuscate_column(series)
      [] action = "do_not_change" -> {series}
      [] OTHER -> {}

\* What the first k of the actions, applied one after the other, can make of a
\* column.
RECURSIVE ApplyActions(_, _, _)
ApplyActions(series, actions, k) ==
    IF k = 0 THEN {series}
    ELSE UNION {ApplyOne(s, actions[k]) : s \in ApplyActions(series, actions, k - 1)}

\* The number of actions of entry j that preprocess has applied.
ActionsDone(j) ==
    IF j < cfg_i THEN Len(config[j][2])
    ELSE IF j = cfg_i /\ act_i >= 1 THEN act_i - 1
    ELSE 0

\* C29: preprocess goes through the columns in config order and through the
\* actions of a column in the order listed, each action working on the result
\* of the one before (hash then null_column ends all null, null_column then
\* hash ends without nulls); a column holds what its own actions applied so far
\* made of it and a column without entry holds its original values, also after
\* null_column has returned a new DataFrame.
C29_ActionsInOrder ==
    (pp_obj # "none") =>
        /\ \A j \in 1..Len(config) :
              config[j][1] \in SeqToSet(given.columns) =>
                  pp_dataframe.data[config[j][1]]
                      \in ApplyActions(given.data[config[j][1]], config[j][2], ActionsDone(j))
        /\ \A c \in SeqToSet(given.columns) :
              ~HasKey(config, c) => pp_dataframe.data[c] = given.data[c]
        /\ pp_dataframe.columns = given.columns
        /\ pc \in {"preprocessed", "returned"} =>
              \A j \in 1..Len(config) :
                  /\ config[j][2] = <<"hash", "null_column">>
                        => AllNull(pp_dataframe.data[config[j][1]])
                  /\ config[j][2] = <<"null_column", "hash">>
                        => \A i \in 1..pp_dataframe.nrows :
                              ~IsNull(pp_dataframe.data[config[j][1]][i])

\* preprocess hashed column "a", nulled column "b" on a new DataFrame and
\* returned it: "a" holds the hashes, the caller's DataFrame the hashes and the
\* original "b".
C29_Witness ==
    /\ PreprocessFinished
    /\ pc = "returned"
    /\ given.columns = <<"a", "b">>
    /\ given.nrows = 1
    /\ ~IsNull(given.data["b"][1])
    /\ config = << <<"a", <<"hash">> >>, <<"b", <<"null_column">> >> >>
    /\ pp_obj = "new"
    /\ result.df.data["a"] = hash_column(given.data["a"])
    /\ AllNull(result.df.data["b"])
    /\ dataframe.data["a"] = hash_column(given.data["a"])
    /\ dataframe.data["b"] = given.data["b"]


\* ------------------------------------------------------------------------
\* The fields of the scorer (specification SpecReuse)
\* ------------------------------------------------------------------------

\* The fields of a scorer no call has returned from yet, and of a scorer after
\* a call that returned.
ScorerFields ==
    /\ (calls = 1 /\ pc \in {"called", "scoring"}) =>
          column_scores = <<>> /\ global_score = None
    /\ pc = "returned" =>
          /\ global_score = anonify_score(column_distances, column_weights)
          /\ result.anonify_score = Round(global_score, 100)
          /\ Keys(column_scores) = Keys(result.column_scores)

\* Only the return of a call changes column_scores and global_score; nothing
\* changes column_weights.
ScorerFieldsKept ==
    /\ pc' # "returned" => UNCHANGED <<column_scores, global_score>>
    /\ column_weights' = column_weights

\* C30: a new scorer has column_scores = {} and global_score = None; after a
\* call that returns, global_score is the unrounded score of that call and
\* column_scores has the keys of the returned column_scores; a call that raises
\* for a shape mismatch leaves both fields as the last call that returned left
\* them; scoring never changes column_weights.
C30_ScorerCache == []ScorerFields /\ [][ScorerFieldsKept]_vars

\* The second call on a scorer raised for a shape mismatch; the fields hold the
\* score and the column of the first call.
C30_Witness ==
    /\ pc = "raised"
    /\ calls = 2
    /\ result = ShapeError
    /\ Len(column_scores) = 1
    /\ global_score # None
    /\ RLt(One, global_score)


====
